---------------------------- MODULE Spec2Model ----------------------------
(***************************************************************************)
(* Sportsbook promotional-economics simulator: the week-by-week churn and  *)
(* wagering ledger simulator (simulate_ledger), the retention evaluator,   *)
(* the grid-search churn calibration and the Monte Carlo harness.          *)
(*                                                                         *)
(* Numbers are fixed-point integers:                                       *)
(*   probabilities            1 = 1e-5            (PUnit = 1.0)            *)
(*   multipliers              1 = 1e-3            (MUnit = 1.0)            *)
(*   point lines, margins     1 = 0.1 point                                *)
(*   decimal odds, parlay mult 1 = 1e-3                                    *)
(*   stakes                   1 = 1 dollar                                 *)
(*   payouts, gross/net profit 1 = 1e-3 dollar                             *)
(*   promo cost, fee, tax     1 = 1e-5 dollar                              *)
(*   time stamps              1 = 1 hour; dates 1 = 1 day                  *)
(* Every random draw of the code is a parameter of the action that makes   *)
(* it; a specification supplies the draws.                                 *)
(***************************************************************************)
EXTENDS Integers, Sequences, FiniteSets, TLC

PUnit == 100000
MUnit == 1000

\* None (last_bet_week_idx, last_promo_week_idx) and NaN (a missing line).
NoneIdx == -1
NaN == 99999

Min(a, b) == IF a < b THEN a ELSE b
Max(a, b) == IF a > b THEN a ELSE b
Abs(a) == IF a < 0 THEN -a ELSE a

\* np.clip(x, lo, hi) = minimum(maximum(x, lo), hi)
Clip(x, lo, hi) == Min(Max(x, lo), hi)

\* dict.get(k, default)
Get(d, k, default) == IF k \in DOMAIN d THEN d[k] ELSE default

\* p * m for a probability p and a multiplier m
Mul(p, m) == (p * m) \div MUnit

RECURSIVE SeqSum(_)
SeqSum(s) == IF s = <<>> THEN 0 ELSE Head(s) + SeqSum(Tail(s))

-----------------------------------------------------------------------------
(* ChurnConfig *)

Segments == {"sharp", "regular", "casual", "promo_hunter"}

\* alpha is kept as a multiple of 0.05 (alpha20 = 20 * alpha) so that
\* exp(-alpha * weeks_active) is an entry of ExpTable.
DEFAULT_CHURN_CONFIG ==
    [ base_weekly_churn |-> [sharp |-> 2000, regular |-> 5000, casual |-> 8000,
                             promo_hunter |-> 12000],
      alpha20 |-> 1,
      churn_plateau_mult |-> 680,
      early_churn_mult |-> [sharp |-> 1150, regular |-> 1250, casual |-> 1400,
                            promo_hunter |-> 1600],
      mid_churn_mult |-> [regular |-> 2000, casual |-> 2400, promo_hunter |-> 2900],
      tail_churn_mult |-> [regular |-> 1350, casual |-> 1700, promo_hunter |-> 2000],
      inactivity_mult |-> 2500,
      negative_net_mult |-> 1450,
      promo_hunter_post_promo_mult |-> 1200,
      promo_hunter_post_promo_weeks |-> {1, 2, 3, 4},
      min_churn |-> 600,
      max_churn |-> 65000 ]

\* round(1e4 * exp(-0.05 * k)), k = 0 .. 60
ExpTable ==
    << 10000, 9512, 9048, 8607, 8187, 7788, 7408, 7047, 6703, 6376, 6065, 5769,
       5488, 5220, 4966, 4724, 4493, 4274, 4066, 3867, 3679, 3499, 3329, 3166,
       3012, 2865, 2725, 2592, 2466, 2346, 2231, 2122, 2019, 1920, 1827, 1738,
       1653, 1572, 1496, 1423, 1353, 1287, 1225, 1165, 1108, 1054, 1003, 954,
       907, 863, 821, 781, 743, 707, 672, 639, 608, 578, 550, 523, 498 >>

\* math.exp(-alpha * weeks_active), 1 = 1e-4
ExpNeg(alpha20, weeks_active) == ExpTable[alpha20 * weeks_active + 1]

\* churn_plateau_mult + (1 - churn_plateau_mult) * exp(-alpha * weeks_active), 1 = 1e-4
TenureMult(cfg, weeks_active) ==
    cfg.churn_plateau_mult * 10
      + ((MUnit - cfg.churn_plateau_mult) * ExpNeg(cfg.alpha20, weeks_active)) \div MUnit

TenureBandMult(cfg, segment, weeks_active) ==
    IF weeks_active <= 1 THEN Get(cfg.early_churn_mult, segment, 1800)
    ELSE IF 2 <= weeks_active /\ weeks_active <= 6 THEN Get(cfg.mid_churn_mult, segment, MUnit)
    ELSE IF 7 <= weeks_active /\ weeks_active <= 12 THEN Get(cfg.tail_churn_mult, segment, MUnit)
    ELSE MUnit

\* The hazard before the final clamp.
RawChurnProb(cfg, segment, wk_idx, cu) ==
    LET p0 == (Get(cfg.base_weekly_churn, segment, 6000) * TenureMult(cfg, cu.weeks_active))
                  \div 10000
        p1 == Mul(p0, TenureBandMult(cfg, segment, cu.weeks_active))
        p2 == IF cu.last_bet_week_idx # NoneIdx /\ (wk_idx - cu.last_bet_week_idx) >= 2
              THEN Mul(p1, cfg.inactivity_mult) ELSE p1
        p3 == IF cu.negative_net_streak >= 2 THEN Mul(p2, cfg.negative_net_mult) ELSE p2
        p4 == IF /\ segment = "promo_hunter"
                 /\ cu.last_promo_week_idx # NoneIdx
                 /\ (wk_idx - cu.last_promo_week_idx) \in cfg.promo_hunter_post_promo_weeks
              THEN Mul(p3, cfg.promo_hunter_post_promo_mult) ELSE p3
        p5 == IF cu.promo_effect_weeks_remaining > 0
              THEN Mul(p4, IF segment # "promo_hunter" THEN 930 ELSE 970) ELSE p4
    IN  p5

ChurnProbUnclamped(cfg, segment, wk_idx, cu) == RawChurnProb(cfg, segment, wk_idx, cu)
ChurnProb(cfg, segment, wk_idx, cu) ==
    Clip(RawChurnProb(cfg, segment, wk_idx, cu), cfg.min_churn, cfg.max_churn)


-----------------------------------------------------------------------------
(* The event calendar: the rows simulate_ledger reads from dim_event, sorted *)
(* by (season, week, game_date, event_id).                                   *)

RoundHalfEven(n, d) ==
    LET q == n \div d
        r == n % d
    IN  IF 2 * r < d THEN q
        ELSE IF 2 * r > d THEN q + 1
        ELSE IF q % 2 = 0 THEN q ELSE q + 1

RECURSIVE SortKeys(_)
SortKeys(S) ==
    IF S = {} THEN <<>>
    ELSE LET m == CHOOSE k \in S :
                    \A o \in S : k[1] < o[1] \/ (k[1] = o[1] /\ k[2] <= o[2])
         IN  <<m>> \o SortKeys(S \ {m})

\* week_keys: the distinct (season, week) pairs, sorted
WeekKeys(evs) == SortKeys({<<evs[i].season, evs[i].week>> : i \in DOMAIN evs})

\* events_by_week.get(week_key)
EventsByWeek(evs, wk) == SelectSeq(evs, LAMBDA e : e.season = wk[1] /\ e.week = wk[2])

-----------------------------------------------------------------------------
(* simulate_ledger: per-segment promo tables *)

promo_eligibility == [sharp |-> 45000, regular |-> 72000, casual |-> 68000,
                      promo_hunter |-> 40000]
promo_base_rate == [sharp |-> 5000, regular |-> 9500, casual |-> 8000,
                    promo_hunter |-> 8000]
promo_cost_scale == [sharp |-> 900, regular |-> 1000, casual |-> 950,
                     promo_hunter |-> 700]

type_choices == <<"moneyline", "spread", "total", "parlay">>
leg_market_choices == <<"moneyline", "spread", "total">>
leg_market_weights == <<250, 450, 300>>

\* random.choices(population, weights, k=1)[0] for a draw r of random(), 1 = 1e-3:
\* the first item whose cumulative weight exceeds r * total.
RECURSIVE ChoiceIdx(_, _, _, _)
ChoiceIdx(weights, target, i, acc) ==
    IF i >= Len(weights) THEN Len(weights)
    ELSE IF target < (acc + weights[i]) * MUnit THEN i
    ELSE ChoiceIdx(weights, target, i + 1, acc + weights[i])

Choices(population, weights, r) ==
    population[ChoiceIdx(weights, r * SeqSum(weights), 1, 0)]

\* american_to_decimal, for odds # 0
american_to_decimal(odds) ==
    IF odds > 0 THEN 1000 + odds * 10 ELSE 1000 + 100000 \div Abs(odds)

-----------------------------------------------------------------------------
(* simulate_ledger: one leg.  d holds the leg's draws:                      *)
(*   syn_total, syn_spread  rng.normal for a missing total / spread line    *)
(*   coin                   rng.random() of the selection                   *)
(*   shift                  rng.normal of the line noise                    *)
(*   z1, z2                 rng.normal of the price noise                   *)

LegTotalLine(ev, d) ==
    IF ev.total_line = NaN THEN Clip(430 + d.syn_total, 310, 590) ELSE ev.total_line

LegSpreadLine(ev, d) ==
    IF ev.spread_line = NaN THEN Clip(d.syn_spread, -140, 140) ELSE ev.spread_line

Outcome(x) == IF x > 0 THEN "win" ELSE IF x < 0 THEN "lose" ELSE "push"

Other(side) == IF side = "home" THEN "away" ELSE "home"

SpreadLeg(ev, d) ==
    LET spread_line == LegSpreadLine(ev, d)
        favorite_side == IF spread_line < 0 THEN "home" ELSE "away"
        selection == IF d.coin < 57000 THEN favorite_side ELSE Other(favorite_side)
        line_shift == Clip(d.shift, -15, 15)
        bet_line == IF selection = "home" THEN spread_line + line_shift
                    ELSE -spread_line + line_shift
        margin_vs_line == IF selection = "home" THEN ev.home_margin + bet_line
                          ELSE -ev.home_margin + bet_line
    IN  [ selection |-> selection, line_value |-> bet_line,
          american_odds |-> Clip(-112 + d.z1, -145, 116),
          settled |-> Outcome(margin_vs_line) ]

TotalLeg(ev, d) ==
    LET selection == IF d.coin < 56000 THEN "over" ELSE "under"
        bet_line == LegTotalLine(ev, d) + Clip(d.shift, -18, 18)
        delta == ev.total_points - bet_line
    IN  [ selection |-> selection, line_value |-> bet_line,
          american_odds |-> Clip(-114 + d.z1, -155, 120),
          settled |-> IF selection = "over" THEN Outcome(delta) ELSE Outcome(-delta) ]

MoneylineLeg(ev, d) ==
    LET spread_line == LegSpreadLine(ev, d)
        favorite_side == IF spread_line < 0 THEN "home" ELSE "away"
        selection == IF d.coin < 58000 THEN favorite_side ELSE Other(favorite_side)
        abs_spread == Abs(spread_line)
        fav_odds == Clip(RoundHalfEven(-1400 - abs_spread * 18 + 10 * d.z1, 10), -395, -113)
        dog_odds == Clip(RoundHalfEven(1090 + abs_spread * 19 + 10 * d.z2, 10), 100, 315)
        home_won == ev.home_margin > 0
    IN  [ selection |-> selection, line_value |-> NaN,
          american_odds |-> IF selection = favorite_side THEN fav_odds ELSE dog_odds,
          settled |-> IF selection = "home"
                      THEN (IF home_won THEN "win" ELSE "lose")
                      ELSE (IF ~home_won THEN "win" ELSE "lose") ]

SettleLeg(ev, market_type, d) ==
    IF market_type = "spread" THEN SpreadLeg(ev, d)
    ELSE IF market_type = "total" THEN TotalLeg(ev, d)
    ELSE MoneylineLeg(ev, d)

-----------------------------------------------------------------------------
(* simulate_ledger: payout of a bet from leg_results, a sequence of         *)
(* <<settled, decimal odds>>                                                *)

HasLoss(leg_results) == \E i \in DOMAIN leg_results : leg_results[i][1] = "lose"

\* for r, dec in leg_results: mult *= dec if r == "win" else 1.0
RECURSIVE ParlayMultPushAsWin(_, _)
ParlayMultPushAsWin(leg_results, mult) ==
    IF leg_results = <<>> THEN mult
    ELSE ParlayMultPushAsWin(Tail(leg_results), (mult * Head(leg_results)[2]) \div MUnit)

RECURSIVE ParlayMult(_, _)
ParlayMult(leg_results, mult) ==
    IF leg_results = <<>> THEN mult
    ELSE ParlayMult(Tail(leg_results),
                    IF Head(leg_results)[1] = "win"
                    THEN (mult * Head(leg_results)[2]) \div MUnit ELSE mult)

ParlayPayout(stake, leg_results) ==
    IF HasLoss(leg_results) THEN 0 ELSE stake * ParlayMult(leg_results, MUnit)

ParlayStatus(leg_results) ==
    IF HasLoss(leg_results) THEN "lose"
    ELSE IF \A i \in DOMAIN leg_results : leg_results[i][1] = "push" THEN "push"
    ELSE "win"

SinglePayout(stake, leg_results) ==
    LET r == leg_results[1][1]
        dec == leg_results[1][2]
    IN  IF r = "win" THEN stake * dec ELSE IF r = "push" THEN stake * MUnit ELSE 0

Payout(bet_type, stake, leg_results) ==
    IF bet_type = "parlay" THEN ParlayPayout(stake, leg_results)
    ELSE SinglePayout(stake, leg_results)

Status(bet_type, leg_results) ==
    IF bet_type = "parlay" THEN ParlayStatus(leg_results) ELSE leg_results[1][1]

-----------------------------------------------------------------------------
(* simulate_ledger: the promotion decision and the costs of a bet           *)

RecentPromos8w(history, wk_idx) ==
    Cardinality({i \in DOMAIN history : (wk_idx - history[i]) <= 8})

PromoProb(c, segment, wk_idx, cu) ==
    LET p0 == Get(promo_base_rate, segment, 8000) + 50 * c.promo_sensitivity
        p1 == Mul(p0, Max(250, MUnit - 220 * RecentPromos8w(cu.promo_week_history, wk_idx)))
        p2 == IF cu.weeks_active >= 20 THEN Mul(p1, 450)
              ELSE IF cu.weeks_active >= 8 THEN Mul(p1, 700) ELSE p1
        p3 == IF cu.negative_net_streak >= 2 THEN Mul(p2, 750) ELSE p2
    IN  Clip(p3, 1000, 45000)

\* promo_trigger; d.promo_u and d.hunter_u are the rng.random() draws
PromoTriggerRepeated(c, segment, wk_idx, cu, promo_given_this_week, d) ==
    LET t0 == /\ cu.promo_eligible
              /\ d.promo_u < PromoProb(c, segment, wk_idx, cu)
    IN  IF t0 /\ segment = "promo_hunter" /\ cu.weeks_active >= 10
        THEN d.hunter_u < 45000 ELSE t0
PromoTrigger(c, segment, wk_idx, cu, promo_given_this_week, d) ==
    LET t0 == /\ cu.promo_eligible
              /\ ~promo_given_this_week
              /\ d.promo_u < PromoProb(c, segment, wk_idx, cu)
    IN  IF t0 /\ segment = "promo_hunter" /\ cu.weeks_active >= 10
        THEN d.hunter_u < 45000 ELSE t0

TenureCostMult(weeks_active) ==
    IF weeks_active < 8 THEN 1000 ELSE IF weeks_active < 20 THEN 450 ELSE 300

\* The cap fraction of stake, 1 = 1e-5
PromoCapFlat(weeks_active) == 20000
PromoCap(weeks_active) ==
    IF weeks_active < 8 THEN 14000 ELSE IF weeks_active < 20 THEN 9000 ELSE 6000

\* promo_cost; d.cost_u is rng.uniform(0.05, 0.18), 1 = 1e-3
PromoCost(c, segment, weeks_active, stake, promo_trigger, d) ==
    LET frac == Clip((d.cost_u * c.promo_sensitivity * Get(promo_cost_scale, segment, 1000))
                        \div 1000, 0, 20000)
        raw == IF promo_trigger THEN stake * Mul(frac, TenureCostMult(weeks_active)) ELSE 0
        capped == Min(raw, stake * PromoCap(weeks_active))
    IN  IF promo_trigger /\ segment = "promo_hunter" THEN Min(capped, stake * 6000)
        ELSE capped

PaymentFee(stake) == stake * 1200

\* gross_profit in 1e-3 dollar, tax in 1e-5 dollar
TaxOnSigned(gross_profit) == gross_profit * 3
Tax(gross_profit) == Max(0, gross_profit) * 3

NetProfit(gross_profit, promo_cost, payment_fee, tax) ==
    gross_profit - (promo_cost + payment_fee + tax) \div 100

-----------------------------------------------------------------------------
(* Bounds of the model and the inputs drawn within them *)

MaxWeeks == 21
MaxBetsWeek == 2
MaxBets == 2
MaxWeekEvents == 3

\* Game days within a week (Thursday, Sunday, Monday) and a cycle of results
\* and lines; a line may be missing (NaN).
DayOffset == <<-3, 0, 0, 1>>
Margins == <<30, -70, 0>>
Totals == <<410, 500, 370>>
SpreadLines == <<-30, 75, NaN>>
TotalLines == <<410, 445, NaN>>
WeekSizes == <<2, 1, 3>>

MakeEvent(i, j) ==
    LET k == ((i + j) % 3) + 1
    IN  [ event_id |-> 10 * i + j, season |-> 2010, week |-> i,
          game_day |-> 7 * i + DayOffset[((j - 1) % 4) + 1],
          home_margin |-> Margins[k], total_points |-> Totals[k],
          spread_line |-> SpreadLines[k], total_line |-> TotalLines[k] ]

RECURSIVE Calendar(_)
Calendar(n) ==
    IF n = 0 THEN <<>>
    ELSE Calendar(n - 1) \o [j \in 1 .. WeekSizes[((n - 1) % 3) + 1] |-> MakeEvent(n, j)]

Calendars == {Calendar(0), Calendar(MaxWeeks)}

\* Customer rows: freq 1 = 0.01 bets/week, prefs 1 = 1e-3, promo_sensitivity 1 = 0.01
Profile(segment) ==
    CASE segment = "sharp" ->
           [segment |-> "sharp", freq |-> 200, avg_stake |-> 150,
            prefs |-> <<200, 450, 250, 100>>, promo_sensitivity |-> 20]
      [] segment = "regular" ->
           [segment |-> "regular", freq |-> 70, avg_stake |-> 60,
            prefs |-> <<250, 400, 250, 100>>, promo_sensitivity |-> 60]
      [] segment = "casual" ->
           [segment |-> "casual", freq |-> 30, avg_stake |-> 30,
            prefs |-> <<300, 350, 250, 100>>, promo_sensitivity |-> 50]
      [] segment = "promo_hunter" ->
           [segment |-> "promo_hunter", freq |-> 25, avg_stake |-> 50,
            prefs |-> <<250, 350, 200, 200>>, promo_sensitivity |-> 98]
      [] OTHER ->
           [segment |-> segment, freq |-> 50, avg_stake |-> 50,
            prefs |-> <<250, 350, 200, 200>>, promo_sensitivity |-> 100]

\* Segment labels a customer table can hold: the four known ones and one that
\* is in none of the per-segment tables.
SegmentLabels == Segments \cup {"vip"}

\* A customer table with the given segments, customer_id = 1, 2, ...
Population(segs) == [i \in DOMAIN segs |-> [customer_id |-> i] @@ Profile(segs[i])]

\* The empty table and every one-customer table
Populations == {Population(<<>>)} \cup {Population(<<sg>>) : sg \in SegmentLabels}

\* Configurations: the default, one whose multipliers push the hazard above
\* max_churn, one whose base rates fall below min_churn.
HighChurnConfig ==
    [ DEFAULT_CHURN_CONFIG EXCEPT
        !.base_weekly_churn = [sharp |-> 30000, regular |-> 30000, casual |-> 40000,
                               promo_hunter |-> 40000],
        !.alpha20 = 0,
        !.inactivity_mult = 2700,
        !.max_churn = 10000 ]

LowChurnConfig ==
    [ DEFAULT_CHURN_CONFIG EXCEPT
        !.base_weekly_churn = [sharp |-> 100, regular |-> 200],
        !.alpha20 = 2,
        !.early_churn_mult = [sharp |-> 1000],
        !.min_churn = 1000,
        !.max_churn = 1000 ]

Configs == {DEFAULT_CHURN_CONFIG, HighChurnConfig, LowChurnConfig}

-----------------------------------------------------------------------------
(* simulate_ledger: state *)

VARIABLES
    events,       \* the rows read from dim_event
    week_keys,    \* the sorted distinct (season, week) pairs
    customers,    \* the customer table
    churn_cfg,    \* the ChurnConfig in use
    pc,           \* position in simulate_ledger
    cidx,         \* position of the customer loop in the table (1-based)
    cu,           \* the customer's run state (the locals of lines 478-487 and wk_idx)
    wk,           \* the week's locals (n_bets_week, week_net_profit, ...)
    bt,           \* the bet's locals (bet_type, stake, leg_events, leg_results, ...)
    bet_rows, leg_rows, cost_rows, bet_id, leg_id,
    bet_ctx,      \* history: per bet row, the week index and tenure it was placed at
    churn_prob,   \* history: the probability the latest churn draw was compared with
    churned_at,   \* history: per customer position, the week index of its churn
    rng_state,    \* the state of rng, the numpy Generator of the running simulate_ledger
    random_state, \* the state of the process-wide generator of the random module
    cal,          \* calibrate_churn_config: its arguments, locals and position
    mc,           \* monte_carlo_validation.main: its arguments, locals and position
    drv           \* a driver that calls the functions directly: its arguments and
                  \* the results it keeps

inputs == <<events, week_keys, customers, churn_cfg>>
ledger == <<bet_rows, leg_rows, cost_rows, bet_id, leg_id, bet_ctx>>
streams == <<rng_state, random_state>>
vars == <<events, week_keys, customers, churn_cfg, pc, cidx, cu, wk, bt,
          bet_rows, leg_rows, cost_rows, bet_id, leg_id, bet_ctx, churn_prob,
          churned_at, rng_state, random_state, cal, mc, drv>>

NoCustomer ==
    [ start_idx |-> 0, wk_idx |-> 0, weeks_active |-> 0, last_bet_week_idx |-> NoneIdx,
      has_churned |-> FALSE, promo_eligible |-> FALSE, last_promo_week_idx |-> NoneIdx,
      promo_week_history |-> <<>>, negative_net_streak |-> 0,
      promo_effect_weeks_remaining |-> 0 ]
NoWeek ==
    [ n_bets_week |-> 0, bet_no |-> 0, week_net_profit |-> 0,
      promo_given_this_week |-> FALSE ]
NoBet ==
    [ bet_type |-> "", stake |-> 0, bet_date |-> 0, leg_events |-> <<>>,
      leg_results |-> <<>> ]

\* The state at the top of the customer loop (line 467), ledgers empty.
SimStart(evs, custs, cfg) ==
    /\ events = evs
    /\ week_keys = WeekKeys(evs)
    /\ customers = custs
    /\ churn_cfg = cfg
    /\ pc = "customer"
    /\ cidx = 1
    /\ cu = NoCustomer
    /\ wk = NoWeek
    /\ bt = NoBet
    /\ bet_rows = <<>> /\ leg_rows = <<>> /\ cost_rows = <<>>
    /\ bet_id = 1 /\ leg_id = 1
    /\ bet_ctx = <<>>
    /\ churn_prob = NoneIdx
    /\ churned_at = [i \in DOMAIN custs |-> NoneIdx]

c_row == customers[cidx]
segment == customers[cidx].segment
week_key == week_keys[cu.wk_idx + 1]
week_events == EventsByWeek(events, week_key)

\* range(start_idx, len(week_keys)) has a next week
HasChurnedIgnored(run) == FALSE
HasChurned(run) == run.has_churned
InRange(wk_idx) == wk_idx < Len(week_keys)

-----------------------------------------------------------------------------
(* simulate_ledger: the customer loop *)

\* line 468: an empty calendar skips the customer
CustomerSkip ==
    /\ pc = "customer" /\ cidx <= Len(customers)
    /\ week_keys = <<>>
    /\ cidx' = cidx + 1
    /\ churn_prob' = NoneIdx
    /\ UNCHANGED <<inputs, ledger, pc, cu, wk, bt, churned_at>>

\* rng.integers(0, max(1, len(week_keys) - 24))
StartDraws == 0 .. (Max(1, Len(week_keys) - 24) - 1)

\* lines 471-487: start_idx and elig_u are the draws of lines 479 and 483
CustomerBegin(start_idx, elig_u) ==
    /\ pc = "customer" /\ cidx <= Len(customers)
    /\ week_keys # <<>>
    /\ start_idx \in StartDraws
    /\ cu' = [ NoCustomer EXCEPT
                 !.start_idx = start_idx,
                 !.wk_idx = start_idx,
                 !.promo_eligible = (elig_u < Get(promo_eligibility, segment, 50000)) ]
    /\ pc' = "week"
    /\ churn_prob' = NoneIdx
    /\ UNCHANGED <<inputs, ledger, cidx, wk, bt, churned_at>>

\* lines 490-491: the break of a churned customer
WeekBreak ==
    /\ pc = "week" /\ InRange(cu.wk_idx)
    /\ HasChurned(cu)
    /\ pc' = "customer"
    /\ cidx' = cidx + 1
    /\ churn_prob' = NoneIdx
    /\ UNCHANGED <<inputs, ledger, cu, wk, bt, churned_at>>

\* line 489: the calendar is exhausted
WeekLoopEnd ==
    /\ pc = "week" /\ ~InRange(cu.wk_idx)
    /\ pc' = "customer"
    /\ cidx' = cidx + 1
    /\ churn_prob' = NoneIdx
    /\ UNCHANGED <<inputs, ledger, cu, wk, bt, churned_at>>

\* lines 742-745
Return ==
    /\ pc = "customer" /\ cidx > Len(customers)
    /\ pc' = "done"
    /\ churn_prob' = NoneIdx
    /\ UNCHANGED <<inputs, ledger, cidx, cu, wk, bt, churned_at>>

-----------------------------------------------------------------------------
(* simulate_ledger: the head of a week *)

\* Where a successful churn draw leaves the loop: `continue` fetches the next week.
AfterChurn == "week"

\* line 493: the churn block runs only past the start week
ChurnEvaluatedAlways(weeks_active) == TRUE
ChurnEvaluated(weeks_active) == weeks_active > 0

\* lines 493-518: u is the churn draw
ChurnCheck(u) ==
    /\ pc = "week" /\ InRange(cu.wk_idx) /\ ~HasChurned(cu)
    /\ ChurnEvaluated(cu.weeks_active)
    /\ LET p == ChurnProb(churn_cfg, segment, cu.wk_idx, cu)
       IN  /\ churn_prob' = p
           /\ IF u < p
              THEN /\ pc' = AfterChurn
                   /\ cu' = [cu EXCEPT !.has_churned = TRUE,
                                       !.wk_idx = IF AfterChurn = "week" THEN @ + 1 ELSE @]
                   /\ churned_at' = [churned_at EXCEPT ![cidx] = cu.wk_idx]
              ELSE /\ pc' = "events"
                   /\ UNCHANGED <<cu, churned_at>>
    /\ UNCHANGED <<inputs, ledger, cidx, wk, bt>>

\* line 493 with weeks_active = 0: no churn evaluation in the start week
NoChurnCheck ==
    /\ pc = "week" /\ InRange(cu.wk_idx) /\ ~HasChurned(cu)
    /\ ~ChurnEvaluated(cu.weeks_active)
    /\ pc' = "events"
    /\ churn_prob' = NoneIdx
    /\ UNCHANGED <<inputs, ledger, cidx, cu, wk, bt, churned_at>>

\* lines 526-530, 1 = 0.01 bets/week
WeeklyLambda(c, week, run) ==
    LET base == Max(1, IF week >= 19 THEN (c.freq * 750) \div MUnit ELSE c.freq)
    IN  IF run.promo_effect_weeks_remaining > 0
        THEN Mul(base, IF c.segment # "promo_hunter" THEN 1090 ELSE 1040) ELSE base

\* lines 536-537: a week without bets, two or more weeks after the last bet
StreakAfterIdleWeek(run) ==
    IF run.last_bet_week_idx # NoneIdx /\ (run.wk_idx - run.last_bet_week_idx) >= 2
    THEN Min(run.negative_net_streak + 1, 6) ELSE run.negative_net_streak

\* lines 535-539: the run state after a week without bets
AfterIdleWeekTenureKept(run) ==
    [run EXCEPT !.negative_net_streak = StreakAfterIdleWeek(run),
                !.wk_idx = @ + 1]
AfterIdleWeek(run) ==
    [run EXCEPT !.negative_net_streak = StreakAfterIdleWeek(run),
                !.weeks_active = @ + 1,
                !.wk_idx = @ + 1]

\* line 532: the start week's count, max(1, int(rng.poisson(...)))
FirstWeekBetsUnforced(n) == n
FirstWeekBets(n) == Max(1, n)

\* lines 520-539: n is the value of rng.poisson
WeekBets(n) ==
    /\ pc = "events"
    /\ churn_prob' = NoneIdx
    /\ IF week_events = <<>>
       THEN /\ cu' = [cu EXCEPT !.weeks_active = @ + 1, !.wk_idx = @ + 1]
            /\ pc' = "week"
            /\ wk' = wk
       ELSE LET n_bets_week == IF cu.weeks_active = 0 THEN FirstWeekBets(n) ELSE n
            IN  IF n_bets_week <= 0
                THEN /\ cu' = AfterIdleWeek(cu)
                     /\ pc' = "week"
                     /\ wk' = wk
                ELSE /\ wk' = [ n_bets_week |-> n_bets_week, bet_no |-> 0,
                                week_net_profit |-> 0, promo_given_this_week |-> FALSE ]
                     /\ pc' = "bet"
                     /\ cu' = cu
    /\ UNCHANGED <<inputs, ledger, cidx, bt, churned_at>>

\* lines 735-738: the streak at the end of a week with bets
StreakAtWeekEndUncapped(streak, week_net_profit) ==
    IF week_net_profit < 0 THEN streak + 1 ELSE 0
StreakAtWeekEnd(streak, week_net_profit) ==
    IF week_net_profit < 0 THEN Min(streak + 1, 8) ELSE 0

\* lines 735-740
WeekEnd ==
    /\ pc = "bet" /\ wk.bet_no >= wk.n_bets_week
    /\ cu' = [cu EXCEPT
                !.negative_net_streak = StreakAtWeekEnd(@, wk.week_net_profit),
                !.promo_effect_weeks_remaining = Max(0, @ - 1),
                !.weeks_active = @ + 1,
                !.wk_idx = @ + 1]
    /\ pc' = "week"
    /\ churn_prob' = NoneIdx
    /\ UNCHANGED <<inputs, ledger, cidx, wk, bt, churned_at>>

-----------------------------------------------------------------------------
(* simulate_ledger: one bet *)

\* DataFrame.sample(n=k, replace=False): k distinct rows in a random order,
\* as sequences of row positions
Samples(n_rows, k) ==
    {s \in [1 .. k -> 1 .. n_rows] : \A a, b \in 1 .. k : a # b => s[a] # s[b]}

\* line 555
LegSampleSize(n_legs, n_rows) == Min(n_legs, n_rows)

\* lines 553-562: the events of the bet's legs
LegEvents(bet_type, evs, event_id_base, sample) ==
    IF bet_type = "parlay" THEN [i \in DOMAIN sample |-> evs[sample[i]]]
    ELSE SelectSeq(evs, LAMBDA e : e.event_id = event_id_base)

\* lines 543-562.  d: type_r (random.choices), stake_raw (rng.lognormal),
\* ev_idx (rng.integers), hours (rng.uniform(1, 96)), n_legs (rng.integers(2, 5)),
\* sample (the rows week_events.sample picks)
BetBegin(d) ==
    /\ pc = "bet" /\ wk.bet_no < wk.n_bets_week
    /\ LET bet_type == Choices(type_choices, c_row.prefs, d.type_r)
           bet_time_event == week_events[d.ev_idx + 1]
       IN  /\ d.ev_idx \in 0 .. Len(week_events) - 1
           /\ IF bet_type = "parlay"
              THEN /\ d.n_legs \in 2 .. 4
                   /\ d.sample \in Samples(Len(week_events),
                                           LegSampleSize(d.n_legs, Len(week_events)))
              ELSE d.sample = <<>>
           /\ bt' = [ bet_type |-> bet_type,
                      stake |-> Clip(d.stake_raw, 5, 2000),
                      bet_date |-> bet_time_event.game_day * 24 - d.hours,
                      leg_events |-> LegEvents(bet_type, week_events,
                                               bet_time_event.event_id, d.sample),
                      leg_results |-> <<>> ]
    /\ pc' = "leg"
    /\ churn_prob' = NoneIdx
    /\ UNCHANGED <<inputs, ledger, cidx, cu, wk, churned_at>>

\* lines 565-636: one leg; d.market_r is the random.choices draw of a parlay leg
Leg(d) ==
    /\ pc = "leg" /\ Len(bt.leg_results) < Len(bt.leg_events)
    /\ LET leg_no == Len(bt.leg_results) + 1
           ev == bt.leg_events[leg_no]
           market_type == IF bt.bet_type # "parlay" THEN bt.bet_type
                          ELSE Choices(leg_market_choices, leg_market_weights, d.market_r)
           leg == SettleLeg(ev, market_type, d)
       IN  IF leg.american_odds = 0
           THEN \* american_to_decimal(0) raises ZeroDivisionError
                /\ pc' = "raised"
                /\ UNCHANGED <<bt, leg_rows, leg_id>>
           ELSE /\ leg_rows' = Append(leg_rows,
                      [ bet_leg_id |-> leg_id, bet_id |-> bet_id, leg_no |-> leg_no,
                        event_id |-> ev.event_id, market_type |-> market_type,
                        selection |-> leg.selection, line_value |-> leg.line_value,
                        american_odds |-> leg.american_odds,
                        decimal_odds |-> american_to_decimal(leg.american_odds),
                        settled_result |-> leg.settled ])
                /\ bt' = [bt EXCEPT !.leg_results =
                            Append(@, <<leg.settled, american_to_decimal(leg.american_odds)>>)]
                /\ leg_id' = leg_id + 1
                /\ pc' = pc
    /\ churn_prob' = NoneIdx
    /\ UNCHANGED <<inputs, bet_rows, cost_rows, bet_id, bet_ctx, cidx, cu, wk, churned_at>>

\* line 732: bet_id += 1
NextBetIdStuck(id) == id
NextBetId(id) == id + 1

\* lines 698-705: the run state after the promo decision; d.effect is the
\* rng.integers draw of the promo-effect length
AfterPromoOverwritten(run, seg, wk_idx, promo_trigger, d) ==
    IF promo_trigger
    THEN [run EXCEPT
            !.last_promo_week_idx = wk_idx,
            !.promo_week_history = Append(@, wk_idx),
            !.promo_effect_weeks_remaining = d.effect,
            !.last_bet_week_idx = wk_idx]
    ELSE [run EXCEPT !.last_bet_week_idx = wk_idx]
AfterPromo(run, seg, wk_idx, promo_trigger, d) ==
    IF promo_trigger
    THEN [run EXCEPT
            !.last_promo_week_idx = wk_idx,
            !.promo_week_history = Append(@, wk_idx),
            !.promo_effect_weeks_remaining = Max(@, d.effect),
            !.last_bet_week_idx = wk_idx]
    ELSE [run EXCEPT !.last_bet_week_idx = wk_idx]

\* rng.integers(5, 11), or rng.integers(3, 6) for a promo hunter
EffectRange(seg) == IF seg # "promo_hunter" THEN 5 .. 10 ELSE 3 .. 5

\* lines 638-733: payout, promotion, costs, and the three rows of the bet
BetSettle(d) ==
    /\ pc = "leg" /\ Len(bt.leg_results) >= Len(bt.leg_events)
    /\ d.effect \in EffectRange(segment)
    /\ LET payout == Payout(bt.bet_type, bt.stake, bt.leg_results)
           status == Status(bt.bet_type, bt.leg_results)
           gross_profit == bt.stake * 1000 - payout
           promo_trigger == PromoTrigger(c_row, segment, cu.wk_idx, cu,
                                         wk.promo_given_this_week, d)
           promo_cost == PromoCost(c_row, segment, cu.weeks_active, bt.stake,
                                   promo_trigger, d)
           payment_fee == PaymentFee(bt.stake)
           tax == Tax(gross_profit)
           net_profit == NetProfit(gross_profit, promo_cost, payment_fee, tax)
       IN  /\ cu' = AfterPromo(cu, segment, cu.wk_idx, promo_trigger, d)
           /\ wk' = [wk EXCEPT
                       !.promo_given_this_week = @ \/ promo_trigger,
                       !.week_net_profit = @ + net_profit,
                       !.bet_no = @ + 1]
           /\ bet_rows' = Append(bet_rows,
                 [ bet_id |-> bet_id, customer_id |-> c_row.customer_id,
                   bet_datetime |-> bt.bet_date, bet_type |-> bt.bet_type,
                   stake_amount |-> bt.stake, gross_payout |-> payout,
                   status |-> status ])
           /\ cost_rows' = Append(cost_rows,
                 [ cost_id |-> bet_id, bet_id |-> bet_id, promo_cost |-> promo_cost,
                   payment_fee |-> payment_fee, tax |-> tax ])
           /\ bet_ctx' = Append(bet_ctx,
                 [ cidx |-> cidx, wk_idx |-> cu.wk_idx, weeks_active |-> cu.weeks_active,
                   n_week_events |-> Len(week_events), promo_trigger |-> promo_trigger ])
    /\ bet_id' = NextBetId(bet_id)
    /\ pc' = "bet"
    /\ bt' = NoBet
    /\ churn_prob' = NoneIdx
    /\ UNCHANGED <<inputs, leg_rows, leg_id, cidx, churned_at>>

-----------------------------------------------------------------------------
(* Spec: simulate_ledger run on a calendar, a customer table and a config,  *)
(* every draw chosen freely within the sets below.                          *)

\* rng.random(): both sides of every threshold
CoinDraws == {0, PUnit - 1}
\* random.random() of random.choices, 1 = 1e-3: one value per choice
TypeDraws == {0, 300, 700, 950}
MarketDraws == {0, 300, 800}

PoissonDraws == 0 .. Min(MaxBetsWeek, Max(0, MaxBets - Len(bet_rows)))

NoLegDraws == [syn_total |-> 0, syn_spread |-> 0, coin |-> 0, shift |-> 0,
               z1 |-> 0, z2 |-> 0, market_r |-> 0]

\* Spec and SpecBet draw freely: the generators and the callers stay as they are
NoCaller == [pc |-> "none"]
Outside == UNCHANGED <<rng_state, random_state, cal, mc, drv>>
InitOutside ==
    rng_state = 0 /\ random_state = 0 /\ cal = NoCaller /\ mc = NoCaller /\ drv = NoCaller

Init ==
    /\ InitOutside
    /\ \E evs \in Calendars, custs \in Populations, cfg \in Configs :
           SimStart(evs, custs, cfg)

DoCustomerBegin == \E s \in StartDraws, u \in CoinDraws : CustomerBegin(s, u)

DoChurnCheck == \E u \in CoinDraws : ChurnCheck(u)

DoWeekBets == \E n \in PoissonDraws : WeekBets(n)

\* Spec follows the weeks of a run: its bets are spread bets on the favourite
\* of the week's first event at one stake and one price, won, lost or pushed
\* as the event's margin and line decide, promoted or not.  SpecBet (below)
\* explores every draw of a bet.
DoBetBegin ==
    \E r \in {300} :
        BetBegin([type_r |-> r, stake_raw |-> 50, ev_idx |-> 0, hours |-> 1,
                  n_legs |-> 2, sample |-> <<>>])

DoLeg == \E u \in {0} : Leg([NoLegDraws EXCEPT !.coin = u])

DoBetSettle ==
    \E u \in CoinDraws, h \in CoinDraws :
        BetSettle([promo_u |-> u, hunter_u |-> h, cost_u |-> 180,
                   effect |-> IF segment # "promo_hunter" THEN 5 ELSE 3])

Next ==
    \/ CustomerSkip /\ Outside
    \/ DoCustomerBegin /\ Outside
    \/ WeekBreak /\ Outside
    \/ WeekLoopEnd /\ Outside
    \/ Return /\ Outside
    \/ DoChurnCheck /\ Outside
    \/ NoChurnCheck /\ Outside
    \/ DoWeekBets /\ Outside
    \/ DoBetBegin /\ Outside
    \/ DoLeg /\ Outside
    \/ DoBetSettle /\ Outside
    \/ WeekEnd /\ Outside

Spec == Init /\ [][Next]_vars

-----------------------------------------------------------------------------
(* Properties of simulate_ledger, checked under Spec *)

\* The customer position the run state cu belongs to
CuOwner == IF pc \in {"customer", "done"} THEN cidx - 1 ELSE cidx

BetsOf(i) == {b \in DOMAIN bet_rows : bet_rows[b].customer_id = customers[i].customer_id}

\* C1: once a customer's churn draw succeeds at week index w, no Bet, BetLeg
\* or Cost row of that customer is emitted for week w or a later week, and no
\* later week is processed for the customer: its run state stays as the churn
\* draw left it and the loop is only at its head or past the customer.
C1_ChurnIsTerminal ==
    \A i \in DOMAIN churned_at :
        churned_at[i] # NoneIdx =>
            /\ \A b \in BetsOf(i) : bet_ctx[b].wk_idx < churned_at[i]
            /\ \A l \in DOMAIN leg_rows :
                  \A b \in BetsOf(i) :
                      leg_rows[l].bet_id = bet_rows[b].bet_id
                          => bet_ctx[b].wk_idx < churned_at[i]
            /\ \A k \in DOMAIN cost_rows :
                  \A b \in BetsOf(i) :
                      cost_rows[k].bet_id = bet_rows[b].bet_id
                          => bet_ctx[b].wk_idx < churned_at[i]
            /\ i = CuOwner =>
                  /\ pc \in {"week", "customer", "done"}
                  /\ cu.has_churned
                  /\ cu.weeks_active = churned_at[i] - cu.start_idx
                  /\ cu.last_bet_week_idx < churned_at[i]

\* A customer that bet, churned before the calendar's last week, and whose
\* run has returned.
C1_Witness ==
    /\ pc = "done"
    /\ \E i \in DOMAIN churned_at :
          /\ churned_at[i] # NoneIdx
          /\ churned_at[i] + 1 < Len(week_keys)
          /\ BetsOf(i) # {}

\* C2: every churn probability compared with a churn draw lies in
\* [min_churn, max_churn] of the config in use.
C2_ChurnProbClamped ==
    churn_prob # NoneIdx =>
        /\ churn_cfg.min_churn <= churn_prob
        /\ churn_prob <= churn_cfg.max_churn

\* A compared probability that the clamp lowered to max_churn, for a segment
\* that is in none of the per-segment tables.
C2_Witness ==
    /\ churn_prob # NoneIdx
    /\ pc = "events"
    /\ segment \notin Segments
    /\ RawChurnProb(churn_cfg, segment, cu.wk_idx, cu) > churn_cfg.max_churn
    /\ churn_prob = churn_cfg.max_churn
    /\ churn_cfg.min_churn < churn_cfg.max_churn

\* The cap of the claim: 0.14, 0.09, 0.06 of the stake by tenure
C4_Cap(weeks_active) ==
    IF weeks_active < 8 THEN 14000 ELSE IF weeks_active < 20 THEN 9000 ELSE 6000

\* C4: for every bet, promo_cost <= stake * cap(weeks_active at the bet).
C4_PromoCostCapped ==
    \A b \in DOMAIN bet_rows :
        \A k \in DOMAIN cost_rows :
            cost_rows[k].bet_id = bet_rows[b].bet_id =>
                cost_rows[k].promo_cost
                    <= bet_rows[b].stake_amount * C4_Cap(bet_ctx[b].weeks_active)

\* A promoted bet of a customer with twenty or more weeks of tenure, and a
\* promoted bet whose cost is exactly the cap of the first tenure bucket.
C4_Witness ==
    /\ \E b \in DOMAIN cost_rows :
          cost_rows[b].promo_cost > 0 /\ bet_ctx[b].weeks_active >= 20
    /\ \E b \in DOMAIN cost_rows :
          /\ bet_ctx[b].weeks_active < 8
          /\ cost_rows[b].promo_cost = bet_rows[b].stake_amount * 14000

\* The bets of customer i placed in week index w at tenure 0
StartWeekBets(i, w) ==
    {b \in BetsOf(i) : bet_ctx[b].wk_idx = w /\ bet_ctx[b].weeks_active = 0}

\* C15: on a non-empty calendar a customer whose loop has moved past its
\* start week has a Bet row placed in that week with weeks_active = 0, and a
\* returned run over a non-empty customer table has a non-empty Bet ledger.
C15_BetInStartWeek ==
    week_keys # <<>> =>
        /\ (/\ CuOwner \in DOMAIN customers
            /\ pc # "raised"
            /\ (cu.wk_idx > cu.start_idx \/ cidx > CuOwner))
               => StartWeekBets(CuOwner, cu.start_idx) # {}
        /\ (pc = "done" /\ customers # <<>>) => bet_rows # <<>>

\* A returned run whose customer's only bet is the one of its start week:
\* every later week it stayed for had no bets.
C15_Witness ==
    /\ pc = "done" /\ customers # <<>>
    /\ Cardinality(StartWeekBets(1, cu.start_idx)) = 1
    /\ Cardinality(BetsOf(1)) = 1
    /\ cu.weeks_active >= 3

\* C16: a churn probability is computed and compared with a draw only at
\* weeks_active >= 1, and a customer never churns in its start week: the
\* week index of a churn is past start_idx.
C16_NoChurnInStartWeek ==
    /\ churn_prob # NoneIdx => cu.weeks_active >= 1 /\ cu.wk_idx > cu.start_idx
    /\ \A i \in DOMAIN churned_at :
          (i = CuOwner /\ churned_at[i] # NoneIdx) =>
              /\ churned_at[i] > cu.start_idx
              /\ StartWeekBets(i, cu.start_idx) # {}

\* A customer that churned at the first draw it faced, the week after its
\* start week.
C16_Witness ==
    /\ churn_prob # NoneIdx
    /\ cu.has_churned
    /\ churned_at[CuOwner] = cu.start_idx + 1
    /\ cu.weeks_active = 1

\* The Cost records that refer to a bet id
CostsOf(id) == {k \in DOMAIN cost_rows : cost_rows[k].bet_id = id}

\* C17: Bet and Cost records are one-to-one: bet ids are unique, every bet
\* id is in exactly one Cost record, and every Cost record's bet_id is the id
\* of an emitted Bet.
C17_BetCostOneToOne ==
    /\ \A a, b \in DOMAIN bet_rows :
          bet_rows[a].bet_id = bet_rows[b].bet_id => a = b
    /\ \A b \in DOMAIN bet_rows : Cardinality(CostsOf(bet_rows[b].bet_id)) = 1
    /\ \A k \in DOMAIN cost_rows :
          \E b \in DOMAIN bet_rows : bet_rows[b].bet_id = cost_rows[k].bet_id

\* A returned run with bets placed in different weeks.
C17_Witness ==
    /\ pc = "done"
    /\ Len(bet_rows) >= 2 /\ Len(cost_rows) = Len(bet_rows)
    /\ bet_ctx[1].wk_idx # bet_ctx[Len(bet_rows)].wk_idx

\* A step that ends a week the customer was processed in without churning
WeekProcessed == cu'.weeks_active = cu.weeks_active + 1

\* C21: every week processed without churning, the weeks without events and
\* the weeks without bets included, ends with the promo-effect counter one
\* lower, and never below 0.
C21_PromoEffectDecays ==
    [][WeekProcessed =>
          cu'.promo_effect_weeks_remaining = Max(0, cu.promo_effect_weeks_remaining - 1)]_vars

\* What the code does: the counter is lowered at the end of a week with bets
\* (line 739) and left as it is by a week without (lines 522-524, 535-539).
C21_DecaysAfterBetsOnly ==
    [][WeekProcessed =>
          cu'.promo_effect_weeks_remaining =
              IF pc = "bet" THEN Max(0, cu.promo_effect_weeks_remaining - 1)
              ELSE cu.promo_effect_weeks_remaining]_vars

\* The bets of one customer in one calendar week that carry a promo: the
\* trigger was set, or the Cost row has a promo cost
PromotedBets(i, w) ==
    {b \in DOMAIN bet_rows :
        /\ bet_ctx[b].cidx = i /\ bet_ctx[b].wk_idx = w
        /\ \/ bet_ctx[b].promo_trigger
           \/ \E k \in CostsOf(bet_rows[b].bet_id) : cost_rows[k].promo_cost > 0}

\* C24: for every customer and every calendar week, at most one of the
\* customer's bets of that week has a promo.
C24_OnePromoPerWeek ==
    \A b \in DOMAIN bet_rows :
        Cardinality(PromotedBets(bet_ctx[b].cidx, bet_ctx[b].wk_idx)) <= 1

\* Two bets of one customer in one week, the first promoted at a cost and
\* the second not.
C24_Witness ==
    /\ Len(bet_rows) = 2
    /\ bet_ctx[1].cidx = bet_ctx[2].cidx /\ bet_ctx[1].wk_idx = bet_ctx[2].wk_idx
    /\ bet_ctx[1].promo_trigger /\ cost_rows[1].promo_cost > 0
    /\ ~bet_ctx[2].promo_trigger /\ cost_rows[2].promo_cost = 0

-----
(* SpecBet: simulate_ledger for one customer on a one-week calendar of 1 to *)
(* MaxWeekEvents events, with every draw of a bet and of its legs explored: *)
(* bet type, stake, event, time, parlay size and sample, and per leg the    *)
(* market, the selection, the line noise and the price noise.               *)

OneWeek(k) == [j \in 1 .. k |-> MakeEvent(1, j)]

InitBet ==
    /\ InitOutside
    /\ \E k \in 1 .. MaxWeekEvents :
           SimStart(OneWeek(k), Population(<<"regular">>), DEFAULT_CHURN_CONFIG)

BetCustomerBegin == CustomerBegin(0, 0)

BetWeekBets == WeekBets(1)

\* A single bet on any event of the week
SingleBetBegin ==
    /\ pc = "bet"
    /\ \E r \in TypeDraws \ {950}, i \in 0 .. Len(week_events) - 1 :
           BetBegin([type_r |-> r, stake_raw |-> 2500, ev_idx |-> i, hours |-> 1,
                     n_legs |-> 0, sample |-> <<>>])

\* A parlay of any size over any sample of the week's events, timed by any
\* event of the week
ParlayBetBegin ==
    /\ pc = "bet"
    /\ \E n \in 2 .. 4, i \in 0 .. Len(week_events) - 1 :
           \E s \in Samples(Len(week_events), LegSampleSize(n, Len(week_events))) :
               BetBegin([type_r |-> 950, stake_raw |-> 2500, ev_idx |-> i, hours |-> 1,
                         n_legs |-> n, sample |-> s])

WideLeg ==
    \E u \in CoinDraws, r \in MarketDraws :
        Leg([NoLegDraws EXCEPT !.coin = u, !.market_r = r])

BetBetSettle ==
    \E u \in CoinDraws :
        BetSettle([promo_u |-> u, hunter_u |-> 0, cost_u |-> 180, effect |-> 5])

NextBet ==
    \/ BetCustomerBegin /\ Outside
    \/ NoChurnCheck /\ Outside
    \/ BetWeekBets /\ Outside
    \/ SingleBetBegin /\ Outside
    \/ ParlayBetBegin /\ Outside
    \/ WideLeg /\ Outside
    \/ BetBetSettle /\ Outside
    \/ WeekEnd /\ Outside
    \/ WeekLoopEnd /\ Outside
    \/ Return /\ Outside

SpecBet == InitBet /\ [][NextBet]_vars

-----------------------------------------------------------------------------
(* Claims on the bets of SpecBet *)

\* The BetLeg rows of a bet, as positions in leg_rows
LegsOf(b) == {l \in DOMAIN leg_rows : leg_rows[l].bet_id = bet_rows[b].bet_id}

\* The factor of a leg in a parlay: its decimal odds if it won, 1 if it pushed
LegFactor(l) ==
    IF leg_rows[l].settled_result = "win" THEN leg_rows[l].decimal_odds ELSE MUnit

\* The product of the factors of the legs l .. hi, taken in leg order
RECURSIVE FactorProduct(_, _, _)
FactorProduct(l, hi, acc) ==
    IF l > hi THEN acc ELSE FactorProduct(l + 1, hi, (acc * LegFactor(l)) \div MUnit)

\* C3: a parlay pays 0 if any of its legs lost; otherwise it pays the stake
\* times the product of the decimal odds of its winning legs, a pushed leg
\* counting as a factor of 1.
C3_ParlayPayout ==
    \A b \in DOMAIN bet_rows :
        bet_rows[b].bet_type = "parlay" =>
            LET legs == LegsOf(b)
                lo == CHOOSE l \in legs : \A m \in legs : l <= m
                hi == CHOOSE l \in legs : \A m \in legs : m <= l
            IN  /\ legs # {}
                /\ IF \E l \in legs : leg_rows[l].settled_result = "lose"
                   THEN bet_rows[b].gross_payout = 0
                   ELSE bet_rows[b].gross_payout
                            = bet_rows[b].stake_amount * FactorProduct(lo, hi, MUnit)

\* A settled parlay without a lost leg that has a pushed leg and a won leg,
\* and a settled parlay with a won leg and a lost leg.
C3_Witness ==
    \E b \in DOMAIN bet_rows :
        /\ bet_rows[b].bet_type = "parlay"
        /\ \A l \in LegsOf(b) : leg_rows[l].settled_result # "lose"
        /\ \E l \in LegsOf(b) : leg_rows[l].settled_result = "push"
        /\ \E l \in LegsOf(b) : leg_rows[l].settled_result = "win"
        /\ bet_rows[b].gross_payout > bet_rows[b].stake_amount * MUnit

\* C5: every bet that is not a parlay has exactly one BetLeg, and every
\* parlay has between 2 and 4 BetLegs.
C5_LegCounts ==
    \A b \in DOMAIN bet_rows :
        IF bet_rows[b].bet_type = "parlay"
        THEN Cardinality(LegsOf(b)) \in 2 .. 4
        ELSE Cardinality(LegsOf(b)) = 1

\* The part of C5 that the code keeps: one leg for a bet that is not a
\* parlay, and for a parlay min(n_legs, events of the week) legs, at most 4.
C5_LegCountsOfCode ==
    \A b \in DOMAIN bet_rows :
        IF bet_rows[b].bet_type = "parlay"
        THEN /\ Cardinality(LegsOf(b)) \in 1 .. 4
             /\ bet_ctx[b].n_week_events >= 2 => Cardinality(LegsOf(b)) >= 2
        ELSE Cardinality(LegsOf(b)) = 1


\* C18: for every bet, payment_fee is 1.2% of the stake, tax is 3% of
\* max(0, stake - gross_payout), and promo_cost, payment_fee and tax are all
\* at least 0.  (stake in dollars, gross_payout in 1e-3 dollar, the costs in
\* 1e-5 dollar.)
C18_FeeAndTax ==
    \A b \in DOMAIN bet_rows :
        \A k \in CostsOf(bet_rows[b].bet_id) :
            LET stake == bet_rows[b].stake_amount
                book_profit == stake * 1000 - bet_rows[b].gross_payout
            IN  /\ cost_rows[k].payment_fee * 10 = stake * 12000
                /\ cost_rows[k].tax * 100 =
                       IF book_profit > 0 THEN book_profit * 300 ELSE 0
                /\ cost_rows[k].promo_cost >= 0
                /\ cost_rows[k].payment_fee >= 0
                /\ cost_rows[k].tax >= 0

\* A promoted bet that the customer won: the payout exceeds the stake, the
\* tax is 0 and the promo cost and the fee are positive.
C18_Witness ==
    \E b \in DOMAIN bet_rows :
        /\ bet_rows[b].gross_payout > bet_rows[b].stake_amount * 1000
        /\ CostsOf(bet_rows[b].bet_id) # {}
        /\ \A k \in CostsOf(bet_rows[b].bet_id) :
              /\ cost_rows[k].tax = 0
              /\ cost_rows[k].promo_cost > 0
              /\ cost_rows[k].payment_fee > 0

\* The game date of an event of the calendar, in hours (midnight of game_day)
GameDate(event_id) ==
    24 * (CHOOSE g \in {events[i].game_day : i \in DOMAIN events} :
              \E i \in DOMAIN events :
                  events[i].event_id = event_id /\ events[i].game_day = g)

\* C28: every bet's bet_datetime is earlier than the game date of every
\* event its legs refer to, for single bets and parlays alike.
C28_BetBeforeGames ==
    \A b \in DOMAIN bet_rows :
        \A l \in LegsOf(b) :
            bet_rows[b].bet_datetime < GameDate(leg_rows[l].event_id)

\* What holds of the code: a single bet is stamped before the game of its
\* leg, and a parlay before the game of some event of the week (the one that
\* timed it), which need not be among its legs.
C28_SinglesBeforeGame ==
    \A b \in DOMAIN bet_rows :
        \A l \in LegsOf(b) :
            IF bet_rows[b].bet_type # "parlay"
            THEN bet_rows[b].bet_datetime < GameDate(leg_rows[l].event_id)
            ELSE \E i \in DOMAIN events :
                    bet_rows[b].bet_datetime < 24 * events[i].game_day

\* The final home margin of an event of the calendar
HomeMargin(event_id) ==
    CHOOSE m \in {events[i].home_margin : i \in DOMAIN events} :
        \E i \in DOMAIN events :
            events[i].event_id = event_id /\ events[i].home_margin = m

\* C29: a moneyline leg settles as a win only when the selected side scored
\* strictly more than its opponent; on a tied game neither selection wins.
C29_MoneylineWinIsStrict ==
    \A l \in DOMAIN leg_rows :
        (leg_rows[l].market_type = "moneyline" /\ leg_rows[l].settled_result = "win") =>
            \/ leg_rows[l].selection = "home" /\ HomeMargin(leg_rows[l].event_id) > 0
            \/ leg_rows[l].selection = "away" /\ HomeMargin(leg_rows[l].event_id) < 0

\* What the code does: the home selection wins exactly when the home side is
\* ahead, and the away selection wins whenever it is not, a tie included.
C29_AwayWinsUnlessHomeAhead ==
    \A l \in DOMAIN leg_rows :
        leg_rows[l].market_type = "moneyline" =>
            /\ leg_rows[l].settled_result \in {"win", "lose"}
            /\ leg_rows[l].settled_result = "win" <=>
                  IF leg_rows[l].selection = "home"
                  THEN HomeMargin(leg_rows[l].event_id) > 0
                  ELSE HomeMargin(leg_rows[l].event_id) <= 0

-----------------------------------------------------------------------------
(* The two random generators of simulate_ledger (lines 398-399): rng, a     *)
(* numpy Generator made from the seed on every call, and the process-wide   *)
(* generator of the random module, which random.seed(seed) resets.  Each is *)
(* modelled as a linear congruential stream over 0 .. RngMod - 1; a draw    *)
(* advances the stream by one step and reads the new state.                 *)

RngMod == 16384

Lcg(s) == (s * 1229 + 1) % RngMod

\* The state after k draws
RECURSIVE Adv(_, _)
Adv(s, k) == IF k = 0 THEN s ELSE Adv(Lcg(s), k - 1)

\* np.random.default_rng(seed)
SeedRng(seed) == (seed * 7919 + 13) % RngMod

\* random.seed(seed): the state it leaves, whatever the state before
RandomUnseeded(state, seed) == state
RandomSeed(state, seed) == (seed * 5003 + 7) % RngMod

\* rng.random() read from state s, 1 = 1e-5
Uniform(s) == (s * PUnit) \div RngMod

\* random.random() read from state s, 1 = 1e-3
Random(s) == (s * MUnit) \div RngMod

\* rng.integers(lo, hi) and rng.uniform(lo, hi) on an integer scale
Integers(s, lo, hi) == lo + (s * (hi - lo)) \div RngMod

\* rng.normal(0, sigma), in the unit of sigma: eight quantiles of the normal
\* law, in tenths of sigma
NormalTenths == <<-15, -9, -5, -2, 2, 5, 9, 15>>
Normal(s, sigma) == (sigma * NormalTenths[Integers(s, 1, 9)]) \div 10

\* rng.lognormal(log(mean), 0.55): five quantiles of the factor, in tenths
LognormalTenths == <<5, 7, 10, 14, 20>>
Lognormal(s, mean) == (mean * LognormalTenths[Integers(s, 1, 6)]) \div 10

\* rng.poisson(lam) by inversion, lam in 0.01, read from state s and cut at
\* MaxBetsWeek: the least n whose cumulative probability exceeds the draw
RECURSIVE PoissonFrom(_, _, _, _, _)
PoissonFrom(u, lam, n, term, cdf) ==
    IF n >= MaxBetsWeek \/ u < cdf THEN n
    ELSE LET t == (term * lam) \div (100 * (n + 1))
         IN  PoissonFrom(u, lam, n + 1, t, cdf + t)

Poisson(s, lam) ==
    LET p0 == 10 * ExpNeg(1, Min(60, lam \div 5))
    IN  PoissonFrom(Uniform(s), lam, 0, p0, p0)

\* DataFrame.sample(n=k, replace=False, random_state=x) over n_rows rows: the
\* rows picked, in the order picked, from the positions still left
RECURSIVE SampleFrom(_, _, _)
SampleFrom(x, left, k) ==
    IF k = 0 \/ left = <<>> THEN <<>>
    ELSE LET i == (x % Len(left)) + 1
         IN  <<left[i]>> \o SampleFrom(x \div Len(left),
                                       SubSeq(left, 1, i - 1) \o SubSeq(left, i + 1, Len(left)),
                                       k - 1)

Sample(x, n_rows, k) == SampleFrom(x, [i \in 1 .. n_rows |-> i], k)

-----------------------------------------------------------------------------
(* simulate_ledger as its callers run it: seeded, every draw read from the  *)
(* two generators in the order the code draws.                              *)

\* lines 398-465: the call simulate_ledger(con, custs, seed, cfg), up to the
\* top of the customer loop.  con is unchanged: events is read again.
\* line 398: the state of rng when the customer loop begins
RngAfterStartDraws(custs, seed) == Adv(SeedRng(seed), Len(custs))
RngAtEntry(custs, seed) == SeedRng(seed)

SimBegin(custs, seed, cfg) ==
    /\ rng_state' = RngAtEntry(custs, seed)
    /\ random_state' = RandomSeed(random_state, seed)
    /\ events' = events
    /\ week_keys' = WeekKeys(events)
    /\ customers' = custs
    /\ churn_cfg' = cfg
    /\ pc' = "customer"
    /\ cidx' = 1
    /\ cu' = NoCustomer
    /\ wk' = NoWeek
    /\ bt' = NoBet
    /\ bet_rows' = <<>> /\ leg_rows' = <<>> /\ cost_rows' = <<>>
    /\ bet_id' = 1 /\ leg_id' = 1
    /\ bet_ctx' = <<>>
    /\ churn_prob' = NoneIdx
    /\ churned_at' = [i \in DOMAIN custs |-> NoneIdx]

Callers == UNCHANGED <<cal, mc, drv>>

SeededCustomerSkip == CustomerSkip /\ UNCHANGED streams /\ Callers

\* lines 479 and 483
SeededCustomerBegin ==
    LET r1 == Lcg(rng_state)
        r2 == Lcg(r1)
    IN  /\ CustomerBegin(Integers(r1, 0, Max(1, Len(week_keys) - 24)), Uniform(r2))
        /\ rng_state' = r2
        /\ UNCHANGED random_state /\ Callers

SeededWeekBreak == WeekBreak /\ UNCHANGED streams /\ Callers

SeededWeekLoopEnd == WeekLoopEnd /\ UNCHANGED streams /\ Callers

SeededReturn == Return /\ UNCHANGED streams /\ Callers

\* line 516
SeededChurnCheck ==
    /\ ChurnCheck(Uniform(Lcg(rng_state)))
    /\ rng_state' = Lcg(rng_state)
    /\ UNCHANGED random_state /\ Callers

SeededNoChurnCheck == NoChurnCheck /\ UNCHANGED streams /\ Callers

\* lines 531-534
SeededWeekBets ==
    /\ pc = "events"
    /\ LET lam == WeeklyLambda(c_row, week_key[2], cu)
           r1 == Lcg(rng_state)
       IN  /\ WeekBets(Poisson(r1, IF cu.weeks_active = 0 THEN Max(20, lam) ELSE lam))
           /\ rng_state' = r1
    /\ UNCHANGED random_state /\ Callers

SeededWeekEnd == WeekEnd /\ UNCHANGED streams /\ Callers

\* lines 544-560
SeededBetBegin ==
    /\ pc = "bet" /\ wk.bet_no < wk.n_bets_week
    /\ LET t1 == Lcg(random_state)
           parlay == Choices(type_choices, c_row.prefs, Random(t1)) = "parlay"
           r1 == Lcg(rng_state)
           r2 == Lcg(r1)
           r3 == Lcg(r2)
           r4 == Lcg(r3)
           r5 == Lcg(r4)
           n_legs == Integers(r4, 2, 5)
       IN  /\ BetBegin([ type_r |-> Random(t1),
                         stake_raw |-> Lognormal(r1, c_row.avg_stake),
                         ev_idx |-> Integers(r2, 0, Len(week_events)),
                         hours |-> Integers(r3, 1, 96),
                         n_legs |-> n_legs,
                         sample |-> IF parlay
                                    THEN Sample(r5, Len(week_events),
                                                LegSampleSize(n_legs, Len(week_events)))
                                    ELSE <<>> ])
           /\ random_state' = t1
           /\ rng_state' = IF parlay THEN r5 ELSE r3
    /\ Callers

\* lines 566-611
SeededLeg ==
    /\ pc = "leg" /\ Len(bt.leg_results) < Len(bt.leg_events)
    /\ LET ev == bt.leg_events[Len(bt.leg_results) + 1]
           parlay == bt.bet_type = "parlay"
           t1 == Lcg(random_state)
           market_type == IF ~parlay THEN bt.bet_type
                          ELSE Choices(leg_market_choices, leg_market_weights, Random(t1))
           n_total == IF ev.total_line = NaN THEN 1 ELSE 0
           n_syn == n_total + (IF ev.spread_line = NaN THEN 1 ELSE 0)
           coin == Adv(rng_state, n_syn + 1)
           a == Lcg(coin)
           b == Lcg(a)
       IN  /\ Leg([ market_r |-> Random(t1),
                    syn_total |-> Normal(Adv(rng_state, 1), 60),
                    syn_spread |-> Normal(Adv(rng_state, n_total + 1), 50),
                    coin |-> Uniform(coin),
                    shift |-> IF market_type = "spread" THEN Normal(a, 55) \div 10
                              ELSE IF market_type = "total" THEN Normal(a, 7) ELSE 0,
                    z1 |-> IF market_type = "spread" THEN Normal(b, 8)
                           ELSE IF market_type = "total" THEN Normal(b, 9)
                           ELSE Normal(a, 14),
                    z2 |-> Normal(b, 15) ])
           /\ random_state' = IF parlay THEN t1 ELSE random_state
           /\ rng_state' = b
    /\ Callers

\* lines 674-704: the draws of the promotion, each made only where the code
\* evaluates it
SeededBetSettle ==
    /\ pc = "leg" /\ Len(bt.leg_results) >= Len(bt.leg_events)
    /\ LET n_promo == IF cu.promo_eligible /\ ~wk.promo_given_this_week THEN 1 ELSE 0
           promo_u == Uniform(Adv(rng_state, n_promo))
           first == n_promo = 1 /\ promo_u < PromoProb(c_row, segment, cu.wk_idx, cu)
           n_hunter == IF first /\ segment = "promo_hunter" /\ cu.weeks_active >= 10
                       THEN 1 ELSE 0
           hunter_u == Uniform(Adv(rng_state, n_promo + n_hunter))
           promo_trigger == first /\ (n_hunter = 1 => hunter_u < 45000)
           n_cost == IF promo_trigger THEN 2 ELSE 0
           lo == IF segment # "promo_hunter" THEN 5 ELSE 3
           hi == IF segment # "promo_hunter" THEN 11 ELSE 6
       IN  /\ BetSettle([ promo_u |-> IF n_promo = 1 THEN promo_u ELSE PUnit,
                          hunter_u |-> hunter_u,
                          cost_u |-> Integers(Adv(rng_state, n_promo + n_hunter + 1), 50, 180),
                          effect |-> Integers(Adv(rng_state, n_promo + n_hunter + 2), lo, hi) ])
           /\ rng_state' = Adv(rng_state, n_promo + n_hunter + n_cost)
    /\ UNCHANGED random_state /\ Callers

-----------------------------------------------------------------------------
(* compute_still_active_retention: per segment, the fraction (1 = 1e-3) of  *)
(* its customers with a bet that have a bet in each window of days after    *)
(* their first bet.  The result is a function from the segments present.    *)

\* pd.to_datetime(bet_datetime).dt.date, in days
BetDay(bet) == bet.bet_datetime \div 24

CustomerIds(bets) == {bets[i].customer_id : i \in DOMAIN bets}

BetDays(bets, c_id) == {BetDay(bets[i]) : i \in {j \in DOMAIN bets : bets[j].customer_id = c_id}}

\* anchor_map[c_id]: the day of the customer's first bet
AnchorDate(bets, c_id) ==
    CHOOSE d \in BetDays(bets, c_id) : \A e \in BetDays(bets, c_id) : d <= e

\* segment_ids[seg]: the customers with a bet whose row in the customer table
\* carries the segment
SegmentIds(bets, custs, seg) ==
    {c_id \in CustomerIds(bets) :
        \E i \in DOMAIN custs : custs[i].customer_id = c_id /\ custs[i].segment = seg}

active_in_windowClosed(bets, c_id, start_day, end_day) ==
    IF \E d \in BetDays(bets, c_id) :
           /\ start_day <= d - AnchorDate(bets, c_id)
           /\ d - AnchorDate(bets, c_id) <= end_day
    THEN 1 ELSE 0
active_in_window(bets, c_id, start_day, end_day) ==
    IF \E d \in BetDays(bets, c_id) :
           /\ start_day < d - AnchorDate(bets, c_id)
           /\ d - AnchorDate(bets, c_id) <= end_day
    THEN 1 ELSE 0

RECURSIVE SetSum(_, _, _, _)
SetSum(bets, ids, start_day, end_day) ==
    IF ids = {} THEN 0
    ELSE LET i == CHOOSE x \in ids : TRUE
         IN  active_in_window(bets, i, start_day, end_day)
               + SetSum(bets, ids \ {i}, start_day, end_day)

StillActive(bets, ids, start_day, end_day) ==
    (SetSum(bets, ids, start_day, end_day) * MUnit) \div Cardinality(ids)

\* lines 751-785: out, for a ledger with rows
RetentionOut(bets, custs) ==
    [ seg \in {sg \in Segments : SegmentIds(bets, custs, sg) # {}} |->
        LET ids == SegmentIds(bets, custs, seg)
        IN  [ still_active_7d |-> StillActive(bets, ids, 0, 7),
              still_active_30d |-> StillActive(bets, ids, 23, 30),
              still_active_60d |-> StillActive(bets, ids, 53, 60),
              still_active_90d |-> StillActive(bets, ids, 83, 90) ] ]

\* Without lines 749-750 a frame with no rows has no bet_datetime column
compute_still_active_retentionUnguarded(bets, custs) ==
    IF bets = <<>> THEN [raised |-> "KeyError"] ELSE RetentionOut(bets, custs)

compute_still_active_retention(bets, custs) ==
    IF bets = <<>> THEN [seg \in {} |-> 0] ELSE RetentionOut(bets, custs)

-----------------------------------------------------------------------------
(* calibrate_churn_config *)

\* lines 794-799, 1 = 1e-3
target ==
    [ sharp |-> [still_active_7d |-> 720, still_active_30d |-> 580,
                 still_active_60d |-> 420, still_active_90d |-> 280],
      regular |-> [still_active_7d |-> 400, still_active_30d |-> 200,
                   still_active_60d |-> 80, still_active_90d |-> 30],
      casual |-> [still_active_7d |-> 180, still_active_30d |-> 60,
                  still_active_60d |-> 10, still_active_90d |-> 0],
      promo_hunter |-> [still_active_7d |-> 140, still_active_30d |-> 30,
                        still_active_60d |-> 0, still_active_90d |-> 0] ]

\* ret.get(seg, {}).get(k, 0.0)
Sim(ret, seg) ==
    IF seg \in DOMAIN ret THEN ret[seg]
    ELSE [still_active_7d |-> 0, still_active_30d |-> 0,
          still_active_60d |-> 0, still_active_90d |-> 0]

Sq(x) == x * x

\* lines 824-828, 1 = 1e-6
SegScore(ret, seg) ==
    Sq(Sim(ret, seg).still_active_7d - target[seg].still_active_7d)
      + Sq(Sim(ret, seg).still_active_30d - target[seg].still_active_30d)
      + Sq(Sim(ret, seg).still_active_60d - target[seg].still_active_60d)
      + Sq(Sim(ret, seg).still_active_90d - target[seg].still_active_90d)

Score(ret) ==
    SegScore(ret, "sharp") + SegScore(ret, "regular") + SegScore(ret, "casual")
      + SegScore(ret, "promo_hunter")

\* lines 801-808: itertools.product, the last factor varying fastest; scales
\* in 0.01, the inactivity multiplier in 1e-3
grid ==
    [ i \in 1 .. 16 |->
        << IF (i - 1) \div 8 = 0 THEN 95 ELSE 105,
           IF ((i - 1) \div 4) % 2 = 0 THEN 90 ELSE 110,
           IF ((i - 1) \div 2) % 2 = 0 THEN 90 ELSE 110,
           IF (i - 1) % 2 = 0 THEN 2300 ELSE 2700 >> ]

Scaled(table, scale) == [seg \in DOMAIN table |-> (table[seg] * scale) \div 100]

\* lines 814-821: the candidate of a grid cell, made from a copy of base_cfg
Candidate(base_cfg, cell) ==
    [ base_cfg EXCEPT
        !.base_weekly_churn = Scaled(@, cell[1]),
        !.mid_churn_mult = Scaled(@, cell[2]),
        !.tail_churn_mult = Scaled(@, cell[3]),
        !.inactivity_mult = cell[4] ]

\* float("inf")
Infinity == 2000000000

\* customers.sample(n=min(1000, len(customers)), random_state=seed): the rows
\* in the order the seed picks them
SampleRows(custs, seed) ==
    LET order == Sample(SeedRng(seed), Len(custs), Min(1000, Len(custs)))
    IN  [i \in DOMAIN order |-> custs[order[i]]]

\* line 829
ImprovesOrTies(score, best_score) == score <= best_score
Improves(score, best_score) == score < best_score

-----------------------------------------------------------------------------
(* SpecCal: calibrate_churn_config called twice with the same calendar,     *)
(* customers, base config and seed.  After each call the score of the base  *)
(* config itself is measured with the same sample and seed, and before the  *)
(* second call the process-wide generator is left in any state.             *)

CalWeeks == 5
MaxSeed == 3

\* No simulate_ledger call has been made: only the calendar exists
SimIdle(evs) ==
    /\ events = evs
    /\ week_keys = <<>>
    /\ customers = <<>>
    /\ churn_cfg = DEFAULT_CHURN_CONFIG
    /\ pc = "idle"
    /\ cidx = 1
    /\ cu = NoCustomer
    /\ wk = NoWeek
    /\ bt = NoBet
    /\ bet_rows = <<>> /\ leg_rows = <<>> /\ cost_rows = <<>>
    /\ bet_id = 1 /\ leg_id = 1
    /\ bet_ctx = <<>>
    /\ churn_prob = NoneIdx
    /\ churned_at = <<>>
    /\ rng_state = 0

sim == <<events, week_keys, customers, churn_cfg, pc, cidx, cu, wk, bt,
         bet_rows, leg_rows, cost_rows, bet_id, leg_id, bet_ctx, churn_prob,
         churned_at>>

\* States the process-wide generator may be in when a call begins
AmbientStates == {0, 4321, 9999}

CalPopulations ==
    { Population(<<>>), Population(<<"regular", "casual">>),
      Population(<<"sharp", "promo_hunter", "regular">>), Population(<<"vip", "casual">>) }

\* base_cfg is the caller's config object as it is now, arg_cfg what it held
\* when it was passed
NoCall(custs, base_cfg, seed) ==
    [ pc |-> "idle", call |-> 0, population |-> custs, base_cfg |-> base_cfg,
      arg_cfg |-> base_cfg,
      seed |-> seed, sample |-> <<>>, g |-> 1, best_score |-> Infinity,
      best_cfg |-> base_cfg, best_ret |-> [seg \in {} |-> 0],
      scores |-> <<>>, rets |-> <<>>, results |-> <<>>, base_scores |-> <<>>,
      entry_states |-> <<>> ]

InitCal ==
    /\ \E evs \in {Calendar(0), Calendar(CalWeeks)} : SimIdle(evs)
    /\ random_state \in AmbientStates
    /\ \E custs \in CalPopulations, base_cfg \in Configs, seed \in 1 .. MaxSeed :
           cal = NoCall(custs, base_cfg, seed)
    /\ mc = NoCaller /\ drv = NoCaller

\* lines 800 and 809-811
CalBegin ==
    /\ cal.pc = "idle"
    /\ cal' = [cal EXCEPT
                 !.pc = "grid",
                 !.call = @ + 1,
                 !.sample = SampleRows(cal.population, cal.seed),
                 !.g = 1,
                 !.best_score = Infinity,
                 !.best_cfg = cal.base_cfg,
                 !.best_ret = [seg \in {} |-> 0],
                 !.scores = <<>>,
                 !.rets = <<>>,
                 !.entry_states = Append(@, random_state)]
    /\ UNCHANGED <<sim, streams, mc, drv>>

\* lines 814-821: what the caller's config object holds after the writes
\* that turn cfg into the candidate.  cfg is json.loads(json.dumps(base_cfg)),
\* an object tree of its own, so the writes do not reach the caller's; were
\* cfg the caller's object, or a copy sharing its nested tables, they would.
BaseAfterWritesShared(base_cfg, candidate) == candidate
BaseAfterWrites(base_cfg, candidate) == base_cfg

\* lines 813-822: the candidate of the next grid cell and the call of
\* simulate_ledger with it
CalCandidate ==
    /\ cal.pc = "grid" /\ cal.g <= Len(grid)
    /\ SimBegin(cal.sample, cal.seed, Candidate(cal.base_cfg, grid[cal.g]))
    /\ cal' = [cal EXCEPT
                 !.pc = "sim",
                 !.base_cfg = BaseAfterWrites(@, Candidate(@, grid[cal.g]))]
    /\ UNCHANGED <<mc, drv>>

\* lines 823-832, once simulate_ledger has returned
CalScore ==
    /\ cal.pc = "sim" /\ pc = "done"
    /\ LET ret == compute_still_active_retention(bet_rows, cal.sample)
           score == Score(ret)
           better == Improves(score, cal.best_score)
       IN  cal' = [cal EXCEPT
                     !.pc = "grid",
                     !.g = @ + 1,
                     !.best_score = IF better THEN score ELSE @,
                     !.best_cfg = IF better THEN churn_cfg ELSE @,
                     !.best_ret = IF better THEN ret ELSE @,
                     !.scores = Append(@, score),
                     !.rets = Append(@, ret)]
    /\ UNCHANGED <<sim, streams, mc, drv>>

\* lines 834-835
CalReturn ==
    /\ cal.pc = "grid" /\ cal.g > Len(grid)
    /\ cal' = [cal EXCEPT
                 !.pc = "returned",
                 !.results = Append(@, [ best_cfg |-> cal.best_cfg,
                                         sample_achieved |-> cal.best_ret,
                                         score |-> cal.best_score ])]
    /\ UNCHANGED <<sim, streams, mc, drv>>

\* The measurement of the base config: simulate_ledger and the score of lines
\* 822-828 with base_cfg itself, the same sample and the same seed
BaselineBegin ==
    /\ cal.pc = "returned"
    /\ SimBegin(cal.sample, cal.seed, cal.base_cfg)
    /\ cal' = [cal EXCEPT !.pc = "baseline"]
    /\ UNCHANGED <<mc, drv>>

BaselineScore ==
    /\ cal.pc = "baseline" /\ pc = "done"
    /\ cal' = [cal EXCEPT
                 !.pc = IF cal.call < 2 THEN "between" ELSE "finished",
                 !.base_scores =
                     Append(@, Score(compute_still_active_retention(bet_rows, cal.sample)))]
    /\ UNCHANGED <<sim, streams, mc, drv>>

\* Any use of the random module between the two calls
Ambient ==
    /\ cal.pc = "between"
    /\ random_state' \in AmbientStates
    /\ cal' = [cal EXCEPT !.pc = "idle"]
    /\ UNCHANGED <<sim, rng_state, mc, drv>>

NextCal ==
    \/ CalBegin
    \/ CalCandidate
    \/ CalScore
    \/ CalReturn
    \/ BaselineBegin
    \/ BaselineScore
    \/ Ambient
    \/ SeededCustomerSkip
    \/ SeededCustomerBegin
    \/ SeededWeekBreak
    \/ SeededWeekLoopEnd
    \/ SeededReturn
    \/ SeededChurnCheck
    \/ SeededNoChurnCheck
    \/ SeededWeekBets
    \/ SeededBetBegin
    \/ SeededLeg
    \/ SeededBetSettle
    \/ SeededWeekEnd

SpecCal == InitCal /\ [][NextCal]_vars

-----------------------------------------------------------------------------
(* Claims on calibrate_churn_config, checked under SpecCal.  cal.scores and *)
(* cal.rets are the score and the retention of each candidate of the call   *)
(* in grid order, cal.results the value each call returned, cal.base_scores *)
(* the measured score of the base config, cal.entry_states the state of the *)
(* process-wide generator at the start of each call.                        *)

MinScore(scores) == CHOOSE m \in {scores[i] : i \in DOMAIN scores} :
                        \A i \in DOMAIN scores : m <= scores[i]

FirstMin(scores) == CHOOSE i \in DOMAIN scores :
                        /\ scores[i] = MinScore(scores)
                        /\ \A j \in DOMAIN scores : scores[j] = MinScore(scores) => i <= j

\* C6: the call returns the candidate whose score is minimal among the 16 it
\* evaluated, with that candidate's retention and score, and of several
\* candidates with the minimal score the first in grid order.
C6_ReturnsFirstMinimum ==
    cal.pc = "returned" =>
        LET r == cal.results[Len(cal.results)]
            i == FirstMin(cal.scores)
        IN  /\ Len(cal.scores) = 16
            /\ r.score = MinScore(cal.scores)
            /\ r.best_cfg = Candidate(cal.base_cfg, grid[i])
            /\ r.sample_achieved = cal.rets[i]

\* A returned call in which the minimal score is shared by two candidates,
\* the first of them is not the first cell of the grid, and the candidates
\* that share it differ in retention from some other candidate.
C6_Witness ==
    /\ cal.pc = "returned"
    /\ FirstMin(cal.scores) > 1
    /\ \E j \in DOMAIN cal.scores :
          j > FirstMin(cal.scores) /\ cal.scores[j] = MinScore(cal.scores)
    /\ \E j \in DOMAIN cal.scores : cal.scores[j] > MinScore(cal.scores)

\* C7: the call does not fail, and when no candidate scores below the base
\* config it returns the base config with the base config's own score.
C7_BaseWhenNoImprovement ==
    /\ pc # "raised"
    /\ cal.pc \in {"between", "finished"} =>
          LET r == cal.results[Len(cal.results)]
              base_score == cal.base_scores[Len(cal.base_scores)]
          IN  (\A i \in DOMAIN cal.scores : ~(cal.scores[i] < base_score)) =>
                  /\ r.best_cfg = cal.base_cfg
                  /\ r.score = base_score

\* C8: two calls with the same calendar, customers, base config and seed
\* return the same best config, achieved retention and score.
C8_SameResultTwice ==
    Len(cal.results) = 2 => cal.results[1] = cal.results[2]

\* Two returned calls that began with the process-wide generator in different
\* states, on a ledger with parlays and with candidates of different scores.
C8_Witness ==
    /\ Len(cal.results) = 2
    /\ cal.entry_states[1] # cal.entry_states[2]
    /\ \E b \in DOMAIN bet_rows : bet_rows[b].bet_type = "parlay"
    /\ \E i, j \in DOMAIN cal.scores : cal.scores[i] # cal.scores[j]

\* C13: on a calendar with no (season, week) group simulate_ledger raises
\* nothing and returns empty Bet, BetLeg and Cost ledgers whatever the
\* customers, and compute_still_active_retention of that ledger is empty.
C13_EmptyCalendar ==
    events = <<>> =>
        /\ pc # "raised"
        /\ pc = "customer" => ENABLED (SeededCustomerSkip \/ SeededReturn)
        /\ bet_rows = <<>> /\ leg_rows = <<>> /\ cost_rows = <<>>
        /\ \A i \in DOMAIN cal.rets : DOMAIN cal.rets[i] = {}

\* A search over an empty calendar for three customers: every one of the 16
\* simulations has returned and been scored.
C13_Witness ==
    /\ events = <<>>
    /\ Len(cal.sample) = 3
    /\ pc = "done"
    /\ Len(cal.rets) = 16

-----------------------------------------------------------------------------
(* generate_customers(n_customers, seed): the table its own generator draws *)

segments == <<"casual", "regular", "sharp", "promo_hunter">>
seg_prob == <<450, 300, 150, 100>>

\* 1 = 0.01 bets/week
seg_freq == [casual |-> <<12, 50>>, regular |-> <<40, 100>>, sharp |-> <<130, 280>>,
             promo_hunter |-> <<10, 38>>]
seg_stake == [casual |-> <<18, 40>>, regular |-> <<35, 95>>, sharp |-> <<80, 260>>,
              promo_hunter |-> <<25, 70>>]
\* 1 = 1e-3
seg_prefs == [casual |-> <<300, 350, 250, 100>>, regular |-> <<250, 400, 250, 100>>,
              sharp |-> <<200, 450, 250, 100>>, promo_hunter |-> <<250, 350, 200, 200>>]
\* 1 = 0.01
seg_promo_sens == [casual |-> <<30, 70>>, regular |-> <<25, 60>>, sharp |-> <<5, 35>>,
                   promo_hunter |-> <<65, 98>>]

\* lines 367-368: np.clip(prefs + noise, 0.05, None), then prefs / prefs.sum()
ClipNormaliseUnfloored(prefs, noise) ==
    LET raw == [k \in 1 .. 4 |-> prefs[k] + noise[k]]
    IN  [k \in 1 .. 4 |-> (raw[k] * MUnit) \div SeqSum(raw)]
ClipNormalise(prefs, noise) ==
    LET raw == [k \in 1 .. 4 |-> Max(50, prefs[k] + noise[k])]
    IN  [k \in 1 .. 4 |-> (raw[k] * MUnit) \div SeqSum(raw)]

\* lines 366-368: the noise is rng.normal(0, 0.03, 4)
NoisyPrefs(prefs, s) ==
    ClipNormalise(prefs, [k \in 1 .. 4 |-> Normal(Adv(s, k), 30)])

\* lines 349-383: the row of customer cid, drawn from generator state s
\* (eight draws)
GenerateCustomer(cid, s) ==
    LET seg == Choices(segments, seg_prob, Random(Adv(s, 1)))
    IN  [ customer_id |-> cid,
          segment |-> seg,
          freq |-> Integers(Adv(s, 2), seg_freq[seg][1], seg_freq[seg][2]),
          avg_stake |-> Integers(Adv(s, 3), seg_stake[seg][1], seg_stake[seg][2]),
          prefs |-> NoisyPrefs(seg_prefs[seg], Adv(s, 4)),
          promo_sensitivity |-> Integers(Adv(s, 4), seg_promo_sens[seg][1],
                                         seg_promo_sens[seg][2]) ]

RECURSIVE GenerateFrom(_, _, _)
GenerateFrom(cid, n_customers, s) ==
    IF cid > n_customers THEN <<>>
    ELSE <<GenerateCustomer(cid, s)>> \o GenerateFrom(cid + 1, n_customers, Adv(s, 8))

generate_customers(n_customers, seed) == GenerateFrom(1, n_customers, SeedRng(seed))

-----------------------------------------------------------------------------
(* monte_carlo_validation: summarize_quantiles and main *)

\* The metric columns of a per-run row: four ratios and 16 retention columns
ScalarCols == <<"handle", "hold", "net_margin", "promo_rate">>
Windows == <<"still_active_7d", "still_active_30d", "still_active_60d", "still_active_90d">>
\* lines 98-100: the column f"{seg}_{k}" of each segment and window
RetentionCols ==
    [ sharp_still_active_7d |-> <<"sharp", 1>>,
      sharp_still_active_30d |-> <<"sharp", 2>>,
      sharp_still_active_60d |-> <<"sharp", 3>>,
      sharp_still_active_90d |-> <<"sharp", 4>>,
      regular_still_active_7d |-> <<"regular", 1>>,
      regular_still_active_30d |-> <<"regular", 2>>,
      regular_still_active_60d |-> <<"regular", 3>>,
      regular_still_active_90d |-> <<"regular", 4>>,
      casual_still_active_7d |-> <<"casual", 1>>,
      casual_still_active_30d |-> <<"casual", 2>>,
      casual_still_active_60d |-> <<"casual", 3>>,
      casual_still_active_90d |-> <<"casual", 4>>,
      promo_hunter_still_active_7d |-> <<"promo_hunter", 1>>,
      promo_hunter_still_active_30d |-> <<"promo_hunter", 2>>,
      promo_hunter_still_active_60d |-> <<"promo_hunter", 3>>,
      promo_hunter_still_active_90d |-> <<"promo_hunter", 4>> ]
MetricCols == {ScalarCols[i] : i \in DOMAIN ScalarCols} \cup DOMAIN RetentionCols

RECURSIVE SortInts(_)
SortInts(xs) ==
    IF xs = <<>> THEN <<>>
    ELSE LET i == CHOOSE k \in DOMAIN xs : \A j \in DOMAIN xs : xs[k] <= xs[j]
         IN  <<xs[i]>> \o SortInts(SubSeq(xs, 1, i - 1) \o SubSeq(xs, i + 1, Len(xs)))

\* Series.quantile(q / 10), linear interpolation between the order statistics
Quantile(xs, q) ==
    LET sorted == SortInts(xs)
        pos == q * (Len(xs) - 1)
        lo == pos \div 10 + 1
        hi == Min(lo + 1, Len(xs))
    IN  sorted[lo] + ((sorted[hi] - sorted[lo]) * (pos % 10)) \div 10

\* lines 27-40: per metric column of the table, the statistics of its values;
\* no row, no column
Observations(rows, m) == [i \in DOMAIN rows |-> rows[i][m]]

\* line 34: Series.mean()
MeanOverOneMore(s) == SeqSum(s) \div (Len(s) + 1)
Mean(s) == SeqSum(s) \div Len(s)

summarize_quantiles(rows, metric_cols) ==
    [ m \in metric_cols |->
        LET s == Observations(rows, m)
        IN  [ mean |-> Mean(s),
              p10 |-> Quantile(s, 1),
              p50 |-> Quantile(s, 5),
              p90 |-> Quantile(s, 9) ] ]

\* line 67
LedgerNeverEmpty(bets, costs) == FALSE
LedgerEmpty(bets, costs) == bets = <<>> \/ costs = <<>>

\* lines 63-64: the seed of the run with loop index i
RunSeedOneBased(base, i) == base + i + 1
RunSeed(base, i) == base + i

\* The Cost row of a bet (the left merge on bet_id of lines 72-76)
CostOf(costs, b_id) == costs[CHOOSE k \in DOMAIN costs : costs[k].bet_id = b_id]

\* lines 70-101: the row of a run; money in 1e-3 dollar, ratios in 1e-4
RunRow(i, customer_seed, ledger_seed, bets, costs, custs) ==
    LET handle == SeqSum([b \in DOMAIN bets |-> bets[b].stake_amount])
        ggr == SeqSum([b \in DOMAIN bets |->
                          bets[b].stake_amount * MUnit - bets[b].gross_payout])
        promo == SeqSum([b \in DOMAIN bets |-> CostOf(costs, bets[b].bet_id).promo_cost])
        net == SeqSum([b \in DOMAIN bets |->
                  LET c == CostOf(costs, bets[b].bet_id)
                  IN  bets[b].stake_amount * MUnit - bets[b].gross_payout
                        - (c.promo_cost + c.payment_fee + c.tax) \div 100])
        ret == compute_still_active_retention(bets, custs)
    IN  [ m \in {"run_id", "customer_seed", "ledger_seed"} \cup MetricCols |->
            CASE m = "run_id" -> i + 1
              [] m = "customer_seed" -> customer_seed
              [] m = "ledger_seed" -> ledger_seed
              [] m = "handle" -> handle * MUnit
              [] m = "hold" -> IF handle # 0 THEN (ggr * 10) \div handle ELSE 0
              [] m = "net_margin" -> IF handle # 0 THEN (net * 10) \div handle ELSE 0
              [] m = "promo_rate" -> IF handle # 0 THEN promo \div (10 * handle) ELSE 0
              [] OTHER -> Sim(ret, RetentionCols[m][1])[Windows[RetentionCols[m][2]]] ]

-----------------------------------------------------------------------------
(* SpecMC: main of monte_carlo_validation for any run count, customers per  *)
(* run and base seeds within the bounds, on an empty or a short calendar.   *)

MaxRuns == 3
MaxCustomers == 2
McWeeks == 3

NoRun(runs, n_customers, customer_seed, ledger_seed, cfg) ==
    [ pc |-> "loop", runs |-> runs, n_customers |-> n_customers,
      customer_seed |-> customer_seed, ledger_seed |-> ledger_seed,
      churn_cfg |-> cfg, i |-> 0, run_rows |-> <<>>, summary |-> <<>>,
      calls |-> <<>>, ledgers |-> <<>>, columns |-> {} ]

InitMC ==
    /\ \E evs \in {Calendar(0), Calendar(McWeeks)} : SimIdle(evs)
    /\ random_state = 0
    /\ cal = NoCaller /\ drv = NoCaller
    /\ \E runs \in 0 .. MaxRuns, n \in 0 .. MaxCustomers,
          cs \in 1 .. MaxSeed, ls \in 1 .. MaxSeed :
           mc = NoRun(runs, n, cs, ls, DEFAULT_CHURN_CONFIG)

\* lines 62-66: the seeds of the run, its customers, and the call of
\* simulate_ledger.  mc.calls keeps the seed each of the two was called with.
McRun ==
    /\ mc.pc = "loop" /\ mc.i < mc.runs
    /\ LET customer_seed == RunSeed(mc.customer_seed, mc.i)
           ledger_seed == RunSeed(mc.ledger_seed, mc.i)
       IN  /\ SimBegin(generate_customers(mc.n_customers, customer_seed), ledger_seed,
                       mc.churn_cfg)
           /\ mc' = [mc EXCEPT
                       !.pc = "sim",
                       !.calls = Append(@, [ i |-> mc.i,
                                             generate_customers |-> customer_seed,
                                             simulate_ledger |-> ledger_seed ])]
    /\ UNCHANGED <<cal, drv>>

\* lines 67-68: an empty ledger; mc.ledgers keeps the size of each run's ledger
McSkip ==
    /\ mc.pc = "sim" /\ pc = "done"
    /\ LedgerEmpty(bet_rows, cost_rows)
    /\ mc' = [mc EXCEPT !.pc = "loop", !.i = @ + 1,
                        !.ledgers = Append(@, Len(bet_rows))]
    /\ UNCHANGED <<sim, streams, cal, drv>>

\* lines 70-101
McRow ==
    /\ mc.pc = "sim" /\ pc = "done"
    /\ ~LedgerEmpty(bet_rows, cost_rows)
    /\ mc' = [mc EXCEPT
                !.pc = "loop", !.i = @ + 1,
                !.ledgers = Append(@, Len(bet_rows)),
                !.run_rows = Append(@, RunRow(mc.i, RunSeed(mc.customer_seed, mc.i),
                                              RunSeed(mc.ledger_seed, mc.i),
                                              bet_rows, cost_rows, customers))]
    /\ UNCHANGED <<sim, streams, cal, drv>>

\* lines 103-110: the table of the runs and its summary
McSummary ==
    /\ mc.pc = "loop" /\ mc.i >= mc.runs
    /\ LET metric_cols == IF mc.run_rows = <<>> THEN {} ELSE MetricCols
       IN  mc' = [mc EXCEPT
                    !.pc = "done",
                    !.columns = metric_cols,
                    !.summary = summarize_quantiles(mc.run_rows, metric_cols)]
    /\ UNCHANGED <<sim, streams, cal, drv>>

NextMC ==
    \/ McRun
    \/ McSkip
    \/ McRow
    \/ McSummary
    \/ SeededCustomerSkip
    \/ SeededCustomerBegin
    \/ SeededWeekBreak
    \/ SeededWeekLoopEnd
    \/ SeededReturn
    \/ SeededChurnCheck
    \/ SeededNoChurnCheck
    \/ SeededWeekBets
    \/ SeededBetBegin
    \/ SeededLeg
    \/ SeededBetSettle
    \/ SeededWeekEnd

SpecMC == InitMC /\ [][NextMC]_vars

-----------------------------------------------------------------------------
(* Claims on the Monte Carlo harness, checked under SpecMC.  mc.calls keeps, *)
(* per run in the order run, the seeds generate_customers and               *)
(* simulate_ledger were called with; mc.ledgers the number of Bet rows of   *)
(* each run's ledger.                                                       *)

\* The run numbers (run_id) of the runs whose ledger was not empty
NonEmptyRuns == {k \in DOMAIN mc.ledgers : mc.ledgers[k] > 0}

RowIds == {mc.run_rows[r]["run_id"] : r \in DOMAIN mc.run_rows}

\* C9 as stated: the run with run number i uses the seeds base + i.
C9_SeedsBasePlusRunNumber ==
    /\ \A k \in DOMAIN mc.calls :
          /\ mc.calls[k].generate_customers = mc.customer_seed + (mc.calls[k].i + 1)
          /\ mc.calls[k].simulate_ledger = mc.ledger_seed + (mc.calls[k].i + 1)
    /\ \A r \in DOMAIN mc.run_rows :
          /\ mc.run_rows[r]["customer_seed"] = mc.customer_seed + mc.run_rows[r]["run_id"]
          /\ mc.run_rows[r]["ledger_seed"] = mc.ledger_seed + mc.run_rows[r]["run_id"]

\* C9, amended: the run with run number i (run_id = i, i in 1..R) generates
\* its customers with seed base_customer_seed + (i - 1) and simulates its
\* ledger with seed base_ledger_seed + (i - 1): the first run uses the base
\* seeds themselves.
C9_SeedsBasePlusIndex ==
    /\ \A k \in DOMAIN mc.calls :
          /\ mc.calls[k].i + 1 = k
          /\ k <= mc.runs
          /\ mc.calls[k].generate_customers = mc.customer_seed + (k - 1)
          /\ mc.calls[k].simulate_ledger = mc.ledger_seed + (k - 1)
    /\ mc.pc = "sim" =>
          /\ customers = generate_customers(mc.n_customers,
                                            mc.customer_seed + (Len(mc.calls) - 1))
          /\ pc = "customer" /\ cidx = 1 =>
                rng_state = SeedRng(mc.ledger_seed + (Len(mc.calls) - 1))
    /\ \A r \in DOMAIN mc.run_rows :
          /\ mc.run_rows[r]["run_id"] \in 1 .. mc.runs
          /\ mc.run_rows[r]["customer_seed"]
                = mc.customer_seed + (mc.run_rows[r]["run_id"] - 1)
          /\ mc.run_rows[r]["ledger_seed"]
                = mc.ledger_seed + (mc.run_rows[r]["run_id"] - 1)

\* A finished harness with rows for run numbers 1 and 2.
C9_Witness ==
    /\ mc.pc = "done"
    /\ {1, 2} \subseteq RowIds

\* C10: a run with an empty ledger adds no row and no observation; the loop
\* goes on to the remaining runs (a returned simulation is always skipped or
\* recorded, and the loop index counts every run, skipped or not) and the
\* harness ends without an error after all the runs, the rows being those of
\* the runs with a ledger.
C10_EmptyRunsSkipped ==
    /\ pc # "raised"
    /\ (mc.pc = "sim" /\ pc = "done") => ENABLED (McSkip \/ McRow)
    /\ mc.pc = "loop" => mc.i = Len(mc.ledgers) /\ mc.i <= mc.runs
    /\ RowIds = NonEmptyRuns
    /\ Len(mc.run_rows) = Cardinality(NonEmptyRuns)
    /\ mc.pc = "done" =>
          /\ Len(mc.ledgers) = mc.runs
          /\ DOMAIN mc.summary = (IF NonEmptyRuns = {} THEN {} ELSE MetricCols)
          /\ \A m \in DOMAIN mc.summary :
                /\ Len(Observations(mc.run_rows, m)) = Cardinality(NonEmptyRuns)
                /\ mc.summary[m] = summarize_quantiles(mc.run_rows, {m})[m]
          /\ NonEmptyRuns # {} => mc.summary["handle"].p10 > 0

\* A finished harness of several runs for one or more customers, each with
\* an empty ledger: no row and no metric.
C10_Witness ==
    /\ mc.pc = "done"
    /\ mc.runs >= 2 /\ mc.n_customers >= 1
    /\ Len(mc.ledgers) = mc.runs
    /\ NonEmptyRuns = {}
    /\ mc.run_rows = <<>> /\ DOMAIN mc.summary = {}

-----------------------------------------------------------------------------
(* build_promo_impact: the retention queries over fact_bet and dim_customer. *)
(* fact_bet holds the rows of the Bet ledger and dim_customer those of the   *)
(* customer table (build_fact_tables); shares are in 1e-3.                   *)

\* lines 199-207 and 242-250: per customer with a bet and a dim_customer row,
\* the segment and the day of the first bet
first_bet(bets, custs) ==
    { [ customer_id |-> custs[i].customer_id, segment |-> custs[i].segment,
        anchor_date |-> AnchorDate(bets, custs[i].customer_id) ] :
          i \in {j \in DOMAIN custs : custs[j].customer_id \in CustomerIds(bets)} }

\* EXISTS (SELECT 1 FROM fact_bet b2 WHERE ... > anchor_date + after AND
\* ... <= anchor_date + upto)
ExistsBet(bets, f, after, upto) ==
    \E i \in DOMAIN bets :
        /\ bets[i].customer_id = f.customer_id
        /\ BetDay(bets[i]) > f.anchor_date + after
        /\ BetDay(bets[i]) <= f.anchor_date + upto

\* AVG(CASE WHEN EXISTS (...) THEN 1 ELSE 0 END) over the rows F of a group
AvgExists(bets, F, after, upto) ==
    (Cardinality({f \in F : ExistsBet(bets, f, after, upto)}) * MUnit) \div Cardinality(F)

\* The lower end of the window of a checkpoint, in days after the anchor:
\* lines 214, 220, 226 (cumulative) and 257, 263, 269, 275 (still active)
CumulativeAfterTrailing(upto) == IF upto = 7 THEN 0 ELSE upto - 7
CumulativeAfter(upto) == 0
StillActiveAfter(upto) == IF upto = 7 THEN 0 ELSE upto - 7

\* lines 198-237, by segment (the ORDER BY only orders the result rows)
RETENTION_BY_SEGMENT_SQL(bets, custs) ==
    [ seg \in {f.segment : f \in first_bet(bets, custs)} |->
        LET F == {f \in first_bet(bets, custs) : f.segment = seg}
        IN  [ users |-> Cardinality(F),
              retention_7d |-> AvgExists(bets, F, CumulativeAfter(7), 7),
              retention_30d |-> AvgExists(bets, F, CumulativeAfter(30), 30),
              retention_90d |-> AvgExists(bets, F, CumulativeAfter(90), 90) ] ]

\* lines 240-286: the table still_active_retention_by_segment
STILL_ACTIVE_RETENTION_SQL(bets, custs) ==
    [ seg \in {f.segment : f \in first_bet(bets, custs)} |->
        LET F == {f \in first_bet(bets, custs) : f.segment = seg}
        IN  [ users |-> Cardinality(F),
              still_active_7d |-> AvgExists(bets, F, StillActiveAfter(7), 7),
              still_active_30d |-> AvgExists(bets, F, StillActiveAfter(30), 30),
              still_active_60d |-> AvgExists(bets, F, StillActiveAfter(60), 60),
              still_active_90d |-> AvgExists(bets, F, StillActiveAfter(90), 90) ] ]

-----------------------------------------------------------------------------
(* SpecRet: the retention functions on a ledger given row by row.  The      *)
(* ledger is any table of bets grouped by customer, in table order, on days *)
(* on both sides of every window end; the functions are applied once every  *)
(* customer has a bet (line 532 gives each customer a bet in its first      *)
(* week) or when the ledger is empty.                                        *)

MaxRetBets == 4

RetDays == {0, 7, 23, 30, 84, 91}

RetPopulations ==
    { Population(<<>>), Population(<<"sharp">>), Population(<<"casual", "casual">>),
      Population(<<"regular", "vip">>), Population(<<"sharp", "promo_hunter", "sharp">>) }

InitRet ==
    /\ events = <<>> /\ week_keys = <<>>
    /\ customers \in RetPopulations
    /\ churn_cfg = DEFAULT_CHURN_CONFIG
    /\ pc = "idle" /\ cidx = 1
    /\ cu = NoCustomer /\ wk = NoWeek /\ bt = NoBet
    /\ bet_rows = <<>> /\ leg_rows = <<>> /\ cost_rows = <<>>
    /\ bet_id = 1 /\ leg_id = 1
    /\ bet_ctx = <<>>
    /\ churn_prob = NoneIdx
    /\ churned_at = <<>>
    /\ rng_state = 0 /\ random_state = 0 /\ cal = NoCaller /\ mc = NoCaller
    /\ drv = [pc |-> "tables"]

\* A row of the Bet ledger (lines 711-722) for the customer at position c
LoadBet(c, day) ==
    /\ drv.pc = "tables"
    /\ Len(bet_rows) < MaxRetBets
    /\ c \in DOMAIN customers
    /\ bet_rows # <<>> =>
          customers[c].customer_id >= bet_rows[Len(bet_rows)].customer_id
    /\ bet_rows' = Append(bet_rows,
          [ bet_id |-> bet_id, customer_id |-> customers[c].customer_id,
            bet_datetime |-> 24 * day + 5, bet_type |-> "spread",
            stake_amount |-> 50, gross_payout |-> 0, status |-> "lose" ])
    /\ bet_id' = bet_id + 1
    /\ UNCHANGED <<inputs, pc, cidx, cu, wk, bt, leg_rows, cost_rows, leg_id, bet_ctx,
                   churn_prob, churned_at, streams, cal, mc, drv>>

DoLoadBet == \E c \in 1 .. 3, day \in RetDays : LoadBet(c, day)

\* run_sportsbook_analysis lines 823 and 1311-1312, build_promo_impact lines
\* 1089-1093: the three retention results of the ledger
RetentionQueries ==
    /\ drv.pc = "tables"
    /\ bet_rows = <<>> \/
          \A i \in DOMAIN customers : customers[i].customer_id \in CustomerIds(bet_rows)
    /\ drv' = [ pc |-> "done",
                cumulative_ret |-> RETENTION_BY_SEGMENT_SQL(bet_rows, customers),
                still_active_ret |-> STILL_ACTIVE_RETENTION_SQL(bet_rows, customers),
                ret |-> compute_still_active_retention(bet_rows, customers) ]
    /\ UNCHANGED <<sim, streams, cal, mc>>

NextRet ==
    \/ DoLoadBet
    \/ RetentionQueries

SpecRet == InitRet /\ [][NextRet]_vars

\* C12: for every segment of every ledger, the cumulative shares satisfy
\* retention_7d <= retention_30d <= retention_90d.
C12_CumulativeMonotone ==
    drv.pc = "done" =>
        \A seg \in DOMAIN drv.cumulative_ret :
            /\ drv.cumulative_ret[seg].retention_7d <= drv.cumulative_ret[seg].retention_30d
            /\ drv.cumulative_ret[seg].retention_30d <= drv.cumulative_ret[seg].retention_90d

\* A segment of two customers whose three shares all differ.
C12_Witness ==
    /\ drv.pc = "done"
    /\ \E seg \in DOMAIN drv.cumulative_ret :
          /\ drv.cumulative_ret[seg].users = 2
          /\ drv.cumulative_ret[seg].retention_7d < drv.cumulative_ret[seg].retention_30d
          /\ drv.cumulative_ret[seg].retention_30d < drv.cumulative_ret[seg].retention_90d

\* The windows of the claim: the column and the days (after, upto]
StillActiveWindows ==
    { <<"still_active_7d", 0, 7>>, <<"still_active_30d", 23, 30>>,
      <<"still_active_60d", 53, 60>>, <<"still_active_90d", 83, 90>> }

\* The customers of a segment, and those of them with a bet whose day is more
\* than `after` and at most `upto` days after the day of their first bet
InSegment(seg) == {i \in DOMAIN customers : customers[i].segment = seg}
BetsAfterFirst(seg, after, upto) ==
    {i \in InSegment(seg) :
        \E a, b \in DOMAIN bet_rows :
            /\ bet_rows[a].customer_id = customers[i].customer_id
            /\ bet_rows[b].customer_id = customers[i].customer_id
            /\ \A e \in DOMAIN bet_rows :
                  bet_rows[e].customer_id = customers[i].customer_id
                      => bet_rows[a].bet_datetime \div 24 <= bet_rows[e].bet_datetime \div 24
            /\ after < bet_rows[b].bet_datetime \div 24 - bet_rows[a].bet_datetime \div 24
            /\ bet_rows[b].bet_datetime \div 24 - bet_rows[a].bet_datetime \div 24 <= upto}

\* C19: for a ledger with rows, compute_still_active_retention returns an
\* entry for each of the four segments that has customers, and the entry's
\* value for a window is the share (in 1e-3, rounded down) of the segment's
\* customers with a bet in the window (0,7], (23,30], (53,60], (83,90] days
\* after their first bet; every share lies in [0, 1], and the table of
\* STILL_ACTIVE_RETENTION_SQL holds the same shares.
C19_StillActiveShares ==
    (drv.pc = "done" /\ bet_rows # <<>>) =>
        /\ DOMAIN drv.ret = {seg \in Segments : InSegment(seg) # {}}
        /\ \A seg \in DOMAIN drv.ret :
              \A w \in StillActiveWindows :
                  LET share == drv.ret[seg][w[1]]
                      n == Cardinality(InSegment(seg))
                      k == Cardinality(BetsAfterFirst(seg, w[2], w[3]))
                  IN  /\ share * n <= k * MUnit
                      /\ k * MUnit < (share + 1) * n
                      /\ 0 <= share /\ share <= MUnit
                      /\ drv.still_active_ret[seg][w[1]] = share

\* A segment of two customers: neither bet again within 7 days, one was back
\* in days (23,30] and the other in days (83,90].
C19_Witness ==
    /\ drv.pc = "done"
    /\ \E seg \in DOMAIN drv.ret :
          /\ Cardinality(InSegment(seg)) = 2
          /\ drv.ret[seg].still_active_7d = 0
          /\ drv.ret[seg].still_active_30d = 500
          /\ drv.ret[seg].still_active_60d = 0
          /\ drv.ret[seg].still_active_90d = 500

\* C11: when the per-run table holds exactly one run, every metric of the
\* summary has mean = p10 = p50 = p90 = the value observed in that run.
C11_SingleRunSummary ==
    (mc.pc = "done" /\ Len(mc.run_rows) = 1) =>
        /\ DOMAIN mc.summary = MetricCols
        /\ \A m \in MetricCols :
              LET v == mc.run_rows[1][m]
              IN  mc.summary[m] = [mean |-> v, p10 |-> v, p50 |-> v, p90 |-> v]

\* A finished harness of one run with a ledger, its handle and a retention
\* share being positive.
C11_Witness ==
    /\ mc.pc = "done"
    /\ mc.runs = 1 /\ Len(mc.run_rows) = 1
    /\ mc.summary["handle"].p50 > 0
    /\ \E m \in DOMAIN RetentionCols : mc.summary[m].p90 > 0

-----------------------------------------------------------------------------
(* SpecPop: simulate_ledger called twice with one seed, config and calendar *)
(* on two customer tables that share customers; the driver keeps what each  *)
(* call returned.                                                            *)

Row(id, seg) == [customer_id |-> id] @@ Profile(seg)

\* Pairs of tables: a customer alone and followed by another, alone and
\* preceded by another, two customers in both orders, and a customer
\* inserted between two others.
PopPairs ==
    { << <<Row(1, "regular")>>, <<Row(1, "regular"), Row(2, "sharp")>> >>,
      << <<Row(2, "sharp")>>, <<Row(1, "regular"), Row(2, "sharp")>> >>,
      << <<Row(1, "regular"), Row(2, "sharp")>>, <<Row(2, "sharp"), Row(1, "regular")>> >>,
      << <<Row(1, "sharp"), Row(2, "casual")>>,
         <<Row(1, "sharp"), Row(3, "promo_hunter"), Row(2, "casual")>> >> }

InitPop ==
    /\ \E evs \in {Calendar(0), Calendar(CalWeeks)} : SimIdle(evs)
    /\ random_state = 0 /\ cal = NoCaller /\ mc = NoCaller
    /\ \E tables \in PopPairs, seed \in 1 .. MaxSeed :
           drv = [pc |-> "idle", tables |-> tables, seed |-> seed, runs |-> <<>>]

PopBegin ==
    /\ drv.pc = "idle" /\ Len(drv.runs) < 2
    /\ SimBegin(drv.tables[Len(drv.runs) + 1], drv.seed, DEFAULT_CHURN_CONFIG)
    /\ drv' = [drv EXCEPT !.pc = "sim"]
    /\ UNCHANGED <<cal, mc>>

\* lines 742-745: what the call returned, with the history of the run
PopReturned ==
    /\ drv.pc = "sim" /\ pc = "done"
    /\ drv' = [drv EXCEPT
                 !.pc = "idle",
                 !.runs = Append(@, [ customers |-> customers, bet_rows |-> bet_rows,
                                     leg_rows |-> leg_rows, cost_rows |-> cost_rows,
                                     bet_ctx |-> bet_ctx, churned_at |-> churned_at ])]
    /\ UNCHANGED <<sim, streams, cal, mc>>

NextPop ==
    \/ PopBegin
    \/ PopReturned
    \/ SeededCustomerSkip
    \/ SeededCustomerBegin
    \/ SeededWeekBreak
    \/ SeededWeekLoopEnd
    \/ SeededReturn
    \/ SeededChurnCheck
    \/ SeededNoChurnCheck
    \/ SeededWeekBets
    \/ SeededBetBegin
    \/ SeededLeg
    \/ SeededBetSettle
    \/ SeededWeekEnd

SpecPop == InitPop /\ [][NextPop]_vars

\* The outcome of the customer at position i of a returned run: its churn
\* week and, bet by bet, the week and tenure of the bet, the Bet and Cost
\* fields and the legs, all without the id numbering.
LegsOfBet(run, b) ==
    LET L == {l \in DOMAIN run.leg_rows : run.leg_rows[l].bet_id = run.bet_rows[b].bet_id}
        f == CHOOSE l \in L : \A o \in L : l <= o
    IN  [k \in 1 .. Cardinality(L) |->
            [run.leg_rows[f + k - 1] EXCEPT !.bet_leg_id = 0, !.bet_id = 0]]

OutcomeOf(run, i) ==
    LET B == {b \in DOMAIN run.bet_rows :
                 run.bet_rows[b].customer_id = run.customers[i].customer_id}
        f == CHOOSE b \in B : \A o \in B : b <= o
    IN  [ churned_at |-> run.churned_at[i],
          bets |-> [k \in 1 .. Cardinality(B) |->
                      LET b == f + k - 1
                      IN  [ bet |-> [run.bet_rows[b] EXCEPT !.bet_id = 0],
                            cost |-> [run.cost_rows[b] EXCEPT !.bet_id = 0, !.cost_id = 0],
                            wk_idx |-> run.bet_ctx[b].wk_idx,
                            weeks_active |-> run.bet_ctx[b].weeks_active,
                            legs |-> LegsOfBet(run, b) ]] ]

\* The leading customers two tables share
CommonPrefix(t1, t2) ==
    {k \in DOMAIN t1 \cap DOMAIN t2 : SubSeq(t1, 1, k) = SubSeq(t2, 1, k)}

\* C14 as stated: a customer's outcome is the same in two runs with the same
\* seed, whatever the other customers of the table and their order.
C14_OutcomeIndependent ==
    Len(drv.runs) = 2 =>
        \A i \in DOMAIN drv.runs[1].customers, j \in DOMAIN drv.runs[2].customers :
            drv.runs[1].customers[i] = drv.runs[2].customers[j] =>
                OutcomeOf(drv.runs[1], i) = OutcomeOf(drv.runs[2], j)

\* C14, amended: a customer's outcome is the same in two runs with the same
\* seed whose tables agree up to and including that customer; it does not
\* depend on the customers that follow it.
C14_OutcomeOfPrefix ==
    Len(drv.runs) = 2 =>
        \A k \in CommonPrefix(drv.runs[1].customers, drv.runs[2].customers) :
            OutcomeOf(drv.runs[1], k) = OutcomeOf(drv.runs[2], k)

\* Two returned runs whose tables share their first customer and differ
\* after it, the shared customer having bet and a later customer of both
\* tables having different outcomes in the two runs.
C14_Witness ==
    /\ Len(drv.runs) = 2
    /\ drv.runs[1].customers # drv.runs[2].customers
    /\ 1 \in CommonPrefix(drv.runs[1].customers, drv.runs[2].customers)
    /\ OutcomeOf(drv.runs[1], 1).bets # <<>>
    /\ \E i \in DOMAIN drv.runs[1].customers, j \in DOMAIN drv.runs[2].customers :
          /\ drv.runs[1].customers[i] = drv.runs[2].customers[j]
          /\ OutcomeOf(drv.runs[1], i) # OutcomeOf(drv.runs[2], j)

-----------------------------------------------------------------------------
(* SpecPrefs: the preference weights of generate_customers for any segment  *)
(* and any noise, the four normal draws taken one by one from values up to  *)
(* four standard deviations either side of 0.                               *)

\* rng.normal(0, 0.03), 1 = 1e-3
NoiseDraws == {-120, -45, 0, 45, 120}

InitPrefs ==
    /\ events = <<>> /\ week_keys = <<>>
    /\ customers = <<>>
    /\ churn_cfg = DEFAULT_CHURN_CONFIG
    /\ pc = "idle" /\ cidx = 1
    /\ cu = NoCustomer /\ wk = NoWeek /\ bt = NoBet
    /\ bet_rows = <<>> /\ leg_rows = <<>> /\ cost_rows = <<>>
    /\ bet_id = 1 /\ leg_id = 1
    /\ bet_ctx = <<>>
    /\ churn_prob = NoneIdx
    /\ churned_at = <<>>
    /\ rng_state = 0 /\ random_state = 0 /\ cal = NoCaller /\ mc = NoCaller
    /\ \E k \in DOMAIN segments : drv = [pc |-> "noise", seg |-> segments[k], noise |-> <<>>]

\* line 366: one component of the noise vector
PrefNoise ==
    /\ drv.pc = "noise" /\ Len(drv.noise) < 4
    /\ \E z \in NoiseDraws : drv' = [drv EXCEPT !.noise = Append(@, z)]
    /\ UNCHANGED <<sim, streams, cal, mc>>

\* lines 367-368 and 376-379: the weights of the customer's row
PrefWeights ==
    /\ drv.pc = "noise" /\ Len(drv.noise) = 4
    /\ drv' = [ pc |-> "done", seg |-> drv.seg, noise |-> drv.noise,
                prefs |-> ClipNormalise(seg_prefs[drv.seg], drv.noise) ]
    /\ UNCHANGED <<sim, streams, cal, mc>>

NextPrefs ==
    \/ PrefNoise
    \/ PrefWeights

SpecPrefs == InitPrefs /\ [][NextPrefs]_vars

\* C20: the four preference weights of a generated customer are each
\* strictly positive and sum to 1 up to the rounding of the four quotients
\* (each rounded down to 1e-3), whatever the segment and the noise.
C20_PrefsPositiveSumOne ==
    drv.pc = "done" =>
        /\ \A k \in 1 .. 4 : drv.prefs[k] > 0
        /\ SeqSum(drv.prefs) <= MUnit
        /\ SeqSum(drv.prefs) > MUnit - 4

\* A customer whose parlay weight fell below the floor of 0.05 before the
\* normalisation and whose other weights were raised by the noise.
C20_Witness ==
    /\ drv.pc = "done"
    /\ seg_prefs[drv.seg][4] + drv.noise[4] < 50
    /\ \A k \in 1 .. 3 : drv.noise[k] > 0
    /\ drv.prefs[4] < 50

-----------------------------------------------------------------------------
(* SpecStreak: one customer that never churns and gets no promo, on a       *)
(* calendar of one-game weeks, betting or not in each week.  The favourite  *)
(* pushes in every week but the last two, where it fails to cover: a week   *)
(* with a bet costs the book the fee until then, and earns it the stake in  *)
(* the last two.                                                            *)

StreakWeeks == 12

StreakEvent(i) ==
    [ event_id |-> i, season |-> 2010, week |-> i, game_day |-> 7 * i,
      home_margin |-> IF i < StreakWeeks - 1 THEN 30 ELSE -70,
      total_points |-> 410,
      spread_line |-> IF i < StreakWeeks - 1 THEN -30 ELSE 75,
      total_line |-> 410 ]

StreakCalendar == [i \in 1 .. StreakWeeks |-> StreakEvent(i)]

InitStreak ==
    /\ InitOutside
    /\ SimStart(StreakCalendar, Population(<<"casual">>), DEFAULT_CHURN_CONFIG)

StreakCustomerBegin == CustomerBegin(0, PUnit - 1)

StreakChurnCheck == ChurnCheck(PUnit - 1)

StreakWeekBets == \E n \in 0 .. 1 : WeekBets(n)

NextStreak ==
    \/ StreakCustomerBegin /\ Outside
    \/ StreakChurnCheck /\ Outside
    \/ NoChurnCheck /\ Outside
    \/ StreakWeekBets /\ Outside
    \/ DoBetBegin /\ Outside
    \/ DoLeg /\ Outside
    \/ DoBetSettle /\ Outside
    \/ WeekEnd /\ Outside
    \/ WeekLoopEnd /\ Outside
    \/ Return /\ Outside

SpecStreak == InitStreak /\ [][NextStreak]_vars

\* The net profit of the week a step ends: that of its bets, 0 without bets
WeekNet == IF pc = "bet" THEN wk.week_net_profit ELSE 0

-----------------------------------------------------------------------------
(* SpecTenure: the week loop of Spec for one customer on a calendar long    *)
(* enough for the start week to be drawn (more than 25 weeks), a promo      *)
(* effect of the shortest or the longest length its segment can draw.       *)

TenureWeeks == 26

InitTenure ==
    /\ InitOutside
    /\ \E sg \in {"regular", "promo_hunter"} :
           SimStart(Calendar(TenureWeeks), Population(<<sg>>), DEFAULT_CHURN_CONFIG)

\* The settlement of Spec with the shortest and the longest promo effect of
\* the customer's segment
TenureBetSettle ==
    \E u \in CoinDraws, e \in {3, 5, 10} :
        BetSettle([promo_u |-> u, hunter_u |-> 0, cost_u |-> 180, effect |-> e])

\* The leg of Spec, priced without noise or with the noise that cancels the
\* centre of the spread price
TenureLeg == \E z \in {0, 112} : Leg([NoLegDraws EXCEPT !.z1 = z])

NextTenure ==
    \/ DoCustomerBegin /\ Outside
    \/ WeekBreak /\ Outside
    \/ WeekLoopEnd /\ Outside
    \/ Return /\ Outside
    \/ DoChurnCheck /\ Outside
    \/ NoChurnCheck /\ Outside
    \/ DoWeekBets /\ Outside
    \/ DoBetBegin /\ Outside
    \/ TenureLeg /\ Outside
    \/ TenureBetSettle /\ Outside
    \/ WeekEnd /\ Outside

SpecTenure == InitTenure /\ [][NextTenure]_vars

\* Every step the loop can take is eventually taken
FairSpecTenure == SpecTenure /\ WF_vars(NextTenure)

\* C23: while a customer with start week index s is in the week loop and has
\* not churned, weeks_active = w - s for the week index w being processed;
\* weeks_active changes only by one, together with the step to the next
\* week, and every such step of a customer that has not churned adds one,
\* with or without bets.
C23_TenureIsWeeksSinceStart ==
    [][/\ (pc' \in {"week", "events", "bet", "leg"} /\ ~cu'.has_churned)
            => cu'.weeks_active = cu'.wk_idx - cu'.start_idx
       /\ (cu'.weeks_active # cu.weeks_active /\ pc # "customer")
            => /\ cu'.weeks_active = cu.weeks_active + 1
               /\ cu'.wk_idx = cu.wk_idx + 1
               /\ ~cu'.has_churned
       /\ (cu'.wk_idx # cu.wk_idx /\ ~cu'.has_churned /\ pc # "customer")
            => cu'.weeks_active = cu.weeks_active + 1]_vars

\* A customer that started in the calendar's second week, bet there once
\* and has since been through three weeks; the fifth is about to be played.
C23_Witness ==
    /\ pc = "events"
    /\ cu.start_idx = 1
    /\ cu.wk_idx = 4
    /\ cu.weeks_active = 3
    /\ Len(bet_rows) = 1

\* A step that settles a bet with a promo
PromoTriggered ==
    /\ pc = "leg" /\ pc' = "bet"
    /\ bet_ctx'[Len(bet_ctx')].promo_trigger

\* C25: when a promo triggers in week index w, the last-promo week becomes
\* w, w is appended to the promo-exposure history, and the promo-effect
\* counter after the trigger is at least its value before it and at least 3.
C25_TriggerExtendsEffect ==
    [][PromoTriggered =>
          /\ cu'.last_promo_week_idx = cu.wk_idx
          /\ cu'.promo_week_history = Append(cu.promo_week_history, cu.wk_idx)
          /\ cu'.promo_effect_weeks_remaining >= cu.promo_effect_weeks_remaining
          /\ cu'.promo_effect_weeks_remaining >= 3]_vars

\* A second promo, one week after a first whose effect was drawn as 10
\* weeks: the counter stood at 9 and a trigger has left it there.
C25_Witness ==
    /\ pc = "bet"
    /\ Len(bet_ctx) = 2
    /\ bet_ctx[1].promo_trigger /\ bet_ctx[2].promo_trigger
    /\ cu.promo_week_history = <<bet_ctx[1].wk_idx, bet_ctx[2].wk_idx>>
    /\ cu.last_promo_week_idx = bet_ctx[2].wk_idx
    /\ cu.promo_effect_weeks_remaining = 9

\* C26: the week loop of every customer ends in one of two ways, churned or
\* with the calendar exhausted and the customer still active, and
\* simulate_ledger never leaves by an exception.
C26_NormalTermination ==
    /\ pc # "raised"
    /\ (pc \in {"customer", "done"} /\ CuOwner \in DOMAIN customers) =>
          \/ cu.has_churned /\ churned_at[CuOwner] # NoneIdx
          \/ ~cu.has_churned /\ churned_at[CuOwner] = NoneIdx
                /\ cu.wk_idx = Len(week_keys)

\* What holds of the code: a week loop that ends does so in one of the two
\* ways, and every call ends, by a return or by the exception of a leg.
C26_TwoWaysOut ==
    (pc \in {"customer", "done"} /\ CuOwner \in DOMAIN customers) =>
        \/ cu.has_churned /\ churned_at[CuOwner] # NoneIdx
        \/ ~cu.has_churned /\ churned_at[CuOwner] = NoneIdx
              /\ cu.wk_idx = Len(week_keys)
C26_CallEnds == <>(pc \in {"done", "raised"})

-----------------------------------------------------------------------------
(* SpecOdds: the bets of SpecBet on a week of one or two games, every leg   *)
(* priced with a noise drawn from values on both sides of the clipping      *)
(* bounds of its market and from the ones that cancel the centre of the     *)
(* price (-112 for a spread, -114 for a total).                             *)

OddsEvents == 2

\* round(rng.normal(0, 8)), round(rng.normal(0, 9)), ... in odds points
PriceNoise == {-400, -20, 0, 112, 114, 400}

InitOdds ==
    /\ InitOutside
    /\ \E k \in 1 .. OddsEvents :
           SimStart(OneWeek(k), Population(<<"regular">>), DEFAULT_CHURN_CONFIG)

OddsLeg ==
    \E u \in CoinDraws, r \in MarketDraws, z \in PriceNoise :
        Leg([NoLegDraws EXCEPT !.coin = u, !.market_r = r, !.z1 = z, !.z2 = z])

OddsBetSettle ==
    BetSettle([promo_u |-> PUnit - 1, hunter_u |-> 0, cost_u |-> 180, effect |-> 5])

NextOdds ==
    \/ BetCustomerBegin /\ Outside
    \/ NoChurnCheck /\ Outside
    \/ BetWeekBets /\ Outside
    \/ SingleBetBegin /\ Outside
    \/ ParlayBetBegin /\ Outside
    \/ OddsLeg /\ Outside
    \/ OddsBetSettle /\ Outside
    \/ WeekEnd /\ Outside
    \/ WeekLoopEnd /\ Outside
    \/ Return /\ Outside

SpecOdds == InitOdds /\ [][NextOdds]_vars

\* C27: american_to_decimal is never called with 0, and every leg's
\* american_odds is non-zero with decimal odds above 1, whatever the noise
\* of the price.
C27_OddsNeverZero ==
    /\ pc # "raised"
    /\ \A l \in DOMAIN leg_rows :
          leg_rows[l].american_odds # 0 /\ leg_rows[l].decimal_odds > MUnit

\* What the clipping bounds give: the price of a moneyline leg is at most
\* -113 or at least 100, and every leg that was written has non-zero odds
\* and decimal odds above 1; where the call raised, no noise would have made
\* a moneyline price of the leg 0.  A spread or total price of 0 is not
\* excluded.
C27_MoneylineNeverZero ==
    /\ \A l \in DOMAIN leg_rows :
          /\ leg_rows[l].american_odds # 0 /\ leg_rows[l].decimal_odds > MUnit
          /\ leg_rows[l].market_type = "moneyline" =>
                \/ leg_rows[l].american_odds <= -113
                \/ leg_rows[l].american_odds >= 100
    /\ pc = "raised" =>
          \A u \in CoinDraws, z \in PriceNoise :
              SettleLeg(bt.leg_events[Len(bt.leg_results) + 1], "moneyline",
                        [NoLegDraws EXCEPT !.coin = u, !.z1 = z, !.z2 = z]).american_odds # 0

=============================================================================
